---- MODULE Spec2Model ----
(***************************************************************************)
(* A model of the Frontend runtime (src/frontend.js).                      *)
(*                                                                         *)
(*   StoreSpec : the path-addressed state store (setData, getData,         *)
(*               removeData, resetState) together with the dispatcher      *)
(*               (dispatchDataEvent, updateDataBindings) acting on a small *)
(*               document of bound elements.                               *)
(*   LoadSpec  : the fragment loader (initialize, loadFragments,           *)
(*               loadFragment and the helpers it calls).                   *)
(*   CompSpec  : the template registry (loadTemplates, loadTemplateLinks)  *)
(*               and loadComponent, with the store changing in between.    *)
(*   BehavSpec : the behavior registry (loadBehaviorsElements,             *)
(*               loadBehaviorLinks, registerBehaviorElement).              *)
(*   TrigSpec  : the trigger compile pass (buildElementTriggers) on one    *)
(*               element.                                                  *)
(*   DeepSpec  : the store and the dispatcher again, on fewer inputs and   *)
(*               with the store filled three levels deep.                  *)
(*   PassSpec  : the two compile passes (buildElementTriggers,             *)
(*               buildElementDataBindings), each on one element.           *)
(*   PackSpec  : parseFragment on content that declares behaviors and      *)
(*               templates, inline and in linked packs.                    *)
(*   ReentSpec : the store on a page where a handler calls setData while   *)
(*               it is being notified.                                     *)
(*   FilledSpec: CompSpec on a page whose destination element may already  *)
(*               have a child.                                             *)
(***************************************************************************)
EXTENDS Integers, Sequences, FiniteSets, TLC

VARIABLES
    state,      \* the store: const state = {}                (frontend.js:3)
    text,       \* textContent of each element of the store document
    log,        \* what the last store operation did, in order
    last,       \* the last store operation and how it ended
    ctor,       \* the properties the program has put on the Object function
    dom,        \* the nodes of the page: node id -> node
    site,       \* what fetch(src) answers for each source
    pc,         \* where initialize() stands
    queue,      \* loadFragments: the fragments of allFragments still to load
    total,      \* loadFragments: loadedCount
    stack,      \* the loadFragment calls in progress, innermost last
    calls,      \* one record per loadFragment call made so far
    events,     \* the framework events dispatched on the document so far
    registry,   \* the <template>s of <templates id="templates">, in order
    first,      \* for each id, the first <template> declared so far
    dest,       \* the markup inside the destination element
    made,       \* the last loadComponent call and what it inserted
    behaviors,  \* Frontend._behaviors: the entries of the Map, in order
    offered,       \* every <behavior> handed to registerBehaviorElement so far
    links,      \* the src of each <link type="behaviors"> of the document
    elem,       \* an element with <trigger> children: attributes and children
    host,       \* an element with <data-binding> children, likewise
    head,       \* the src of each <script src> of document.head, in order
    markdownProcessor,  \* let markdownProcessor = ...       (frontend.js:4)
    handled,    \* the onload / onerror expressions of fragments run so far
    inflight,   \* the pack fetches begun by parseFragment and not yet answered
    spliced,    \* the fetched contents spliced into the document so far
    suspended   \* the dispatchDataEvent waiting for a handler that called setData

storeVars == <<state, text, log, last, ctor>>
loadVars == <<dom, site, pc, queue, total, stack, calls, events>>
compVars == <<registry, first, dest, made>>
dirVars == <<behaviors, offered, links, elem, host>>
pageVars == <<head, markdownProcessor, handled, inflight, spliced, suspended>>
vars == <<state, text, log, last, ctor, dom, site, pc, queue, total, stack, calls, events,
          registry, first, dest, made, behaviors, offered, links, elem, host,
          head, markdownProcessor, handled, inflight, spliced, suspended>>

----------------------------------------------------------------------------
(* Bounds of the model.                                                    *)

MaxPathLen == 2     \* longest dot-path handed to set / get / remove
MaxSize == 2        \* most properties the store holds, counted at every level
MaxDeepSize == 3    \* the same, where the store is filled three levels deep
MaxStack == 4       \* most loadFragment calls nested in one another
MaxDest == 2        \* most nodes the destination element holds
MaxSpliced == 2     \* most fragment contents parsed in one run
MaxOffered == 3        \* most <behavior> declarations handed to the registry

----------------------------------------------------------------------------
(* JavaScript values.  Every value is a record of one shape:               *)
(*   k : "undefined" | "null" | "number" | "NaN" | "object" | "array", or  *)
(*       the name of a built-in function: "Object" "Array" "Number"        *)
(*       "Function"                                                        *)
(*   n : the number, for k = "number"                                      *)
(*   m : the own properties of an object or array, as the sequence of      *)
(*       [key, val] pairs in property order (insertion order; the index    *)
(*       keys of an array come first).                                     *)

Undefined == [k |-> "undefined", n |-> 0, m |-> <<>>]
Null == [k |-> "null", n |-> 0, m |-> <<>>]
Num(i) == [k |-> "number", n |-> i, m |-> <<>>]
NaN == [k |-> "NaN", n |-> 0, m |-> <<>>]
Obj(pairs) == [k |-> "object", n |-> 0, m |-> pairs]
Arr(pairs) == [k |-> "array", n |-> 0, m |-> pairs]
P(key, val) == [key |-> key, val |-> val]

Keys == {"a", "b"}
IndexKeys == <<"0", "1">>

\* a built-in function and the properties put on it
Builtin(name, pairs) == [k |-> name, n |-> 0, m |-> pairs]
BuiltinNames == {"Object", "Array", "Number", "Function"}
\* the one property name of the model that every value inherits from its
\* prototype: {}.constructor is Object, [].constructor is Array, ...
Inherited == "constructor"

IsNullish(v) == v.k \in {"undefined", "null"}
\* typeof v === "object" && v !== null
IsObjectLike(v) == v.k \in {"object", "array"}
IsFunction(v) == v.k \in BuiltinNames
\* the values `key in v` accepts; on any other it raises a TypeError
IsObject(v) == IsObjectLike(v) \/ IsFunction(v)

\* an own property
Has(v, key) == \E i \in 1..Len(v.m) : v.m[i].key = key
IndexOf(v, key) == CHOOSE i \in 1..Len(v.m) : v.m[i].key = key
\* `key in obj`: own or inherited
In(v, key) == Has(v, key) \/ key = Inherited
\* what v.constructor is when v has no own property of that name.  Only the
\* Object function is written to by the operations of the model.
ConstructorOf(v) ==
    CASE v.k = "object" -> Builtin("Object", ctor)
      [] v.k = "array" -> Builtin("Array", <<>>)
      [] v.k \in {"number", "NaN"} -> Builtin("Number", <<>>)
      [] OTHER -> Builtin("Function", <<>>)
\* obj[key], for obj other than null and undefined
Prop(v, key) == IF Has(v, key) THEN v.m[IndexOf(v, key)].val
                ELSE IF key = Inherited THEN ConstructorOf(v)
                ELSE Undefined
\* obj[key] = val
PutProp(v, key, val) ==
    IF Has(v, key) THEN [v EXCEPT !.m[IndexOf(v, key)].val = val]
    ELSE [v EXCEPT !.m = Append(v.m, P(key, val))]
\* delete obj[key]
DelProp(v, key) == [v EXCEPT !.m = SelectSeq(v.m, LAMBDA e : e.key # key)]

\* obj.a.b...[key] = val, where the containers along ks exist: the write
\* mutates the innermost container in place
RECURSIVE PutAt(_, _, _)
PutAt(v, ks, val) ==
    IF Len(ks) = 1 THEN PutProp(v, ks[1], val)
    ELSE PutProp(v, ks[1], PutAt(Prop(v, ks[1]), Tail(ks), val))

RECURSIVE DelAt(_, _)
DelAt(v, ks) ==
    IF Len(ks) = 1 THEN DelProp(v, ks[1])
    ELSE PutProp(v, ks[1], DelAt(Prop(v, ks[1]), Tail(ks)))

\* A write or delete goes through the inherited name when the first segment
\* of the path is not an own key of the store (the paths of the model name the
\* inherited property in their first segment only): it then lands on the
\* Object function, not in the store.
ThroughInherited(st, ks) == Len(ks) > 1 /\ ks[1] = Inherited /\ ~Has(st, Inherited)
Written(st, fn, ks, val) ==
    IF ThroughInherited(st, ks)
    THEN [state |-> st, ctor |-> PutAt(Builtin("Object", fn), Tail(ks), val).m]
    ELSE [state |-> PutAt(st, ks, val), ctor |-> fn]
Deleted(st, fn, ks) ==
    IF ThroughInherited(st, ks)
    THEN [state |-> st, ctor |-> DelAt(Builtin("Object", fn), Tail(ks)).m]
    ELSE [state |-> DelAt(st, ks), ctor |-> fn]

\* the number of properties a value holds, at every level
RECURSIVE Size(_)
RECURSIVE SizeFrom(_, _)
SizeFrom(v, i) ==
    IF i > Len(v.m) THEN 0 ELSE 1 + Size(v.m[i].val) + SizeFrom(v, i + 1)
Size(v) == IF IsObject(v) THEN SizeFrom(v, 1) ELSE 0

Front(s) == SubSeq(s, 1, Len(s) - 1)
Last(s) == s[Len(s)]

\* Array.prototype.entries / Object.entries: the keys whose children setData
\* announces.  An array yields its indices 0..length-1, an object its own keys.
ArrLength(v) == Cardinality({i \in 1..Len(IndexKeys) : Has(v, IndexKeys[i])})
EntryKeys(v) ==
    IF v.k = "array" THEN SubSeq(IndexKeys, 1, ArrLength(v))
    ELSE [i \in 1..Len(v.m) |-> v.m[i].key]

----------------------------------------------------------------------------
(* String conversion: what `el.textContent = value ?? ""` shows.           *)

Digits == <<"0", "1", "2", "3", "4", "5", "6", "7", "8", "9">>
NumText(i) == Digits[i + 1]

RECURSIVE ToText(_)
RECURSIVE JoinFrom(_, _)
\* Array.prototype.join(",") from index i on: null and undefined elements
\* give the empty string
JoinFrom(v, i) ==
    IF i > ArrLength(v) THEN ""
    ELSE LET e == Prop(v, IndexKeys[i])
             s == IF IsNullish(e) THEN "" ELSE ToText(e)
         IN  IF i = ArrLength(v) THEN s ELSE s \o "," \o JoinFrom(v, i + 1)
ToText(v) ==
    CASE IsNullish(v) -> ""
      [] v.k = "number" -> NumText(v.n)
      [] v.k = "object" -> "[object Object]"
      [] v.k = "array" -> JoinFrom(v, 1)
      [] OTHER -> "function " \o v.k \o "() { [native code] }"

----------------------------------------------------------------------------
(* The document the store acts on, in document order.  Each element        *)
(* carries at most one attribute family:                                   *)
(*   bind  : data-bind-text="<key>"                                        *)
(*   own   : on-data-<type>="..." on-data-<type>-key="<key>"               *)
(*   child : on-data-child-<type>="..." on-data-child-<type>-key="<key>.*" *)
(*   compiled : no attribute of its own in the markup, but one child        *)
(*           <data-binding key="<key>" target="<type>">, which              *)
(*           buildDataBindings compiles onto it when the page starts        *)
(* A key is held split at its dots; the child key holds the part before    *)
(* the ".*".                                                               *)

El(attr, type, key) == [attr |-> attr, type |-> type, key |-> key]
StoreDoc == <<
    El("bind", "", <<"a">>),
    El("bind", "", <<"a", "b">>),
    El("bind", "", <<"a", "0">>),
    El("own", "added", <<"a">>),
    El("own", "added", <<"a", "b">>),
    El("own", "changed", <<"a">>),
    El("own", "changed", <<"a", "b">>),
    El("own", "deleted", <<"a">>),
    El("own", "deleted", <<"a", "b">>),
    El("child", "added", <<"a">>),
    El("child", "changed", <<"a">>),
    El("child", "deleted", <<"a">>),
    El("child", "added", <<"a", "b">>),
    El("compiled", "text", <<"a">>) >>
Els == 1..Len(StoreDoc)
BindEls == {e \in Els : StoreDoc[e].attr = "bind"}
CompiledEls == {e \in Els : StoreDoc[e].attr = "compiled"}
TextEls == BindEls \cup CompiledEls

\* An attribute name is the sequence of its parts between the dashes.
Attribute(name, value) == [name |-> name, value |-> value]
\* attr.name.startsWith("data-bind-")
StartsWithDataBind(name) == Len(name) > 2 /\ name[1] = "data" /\ name[2] = "bind"

\* the <data-binding> children of an element of the markup
FindChildDataBindings(e) ==
    IF StoreDoc[e].attr = "compiled"
    THEN << [key |-> StoreDoc[e].key, target |-> <<StoreDoc[e].type>>] >>
    ELSE <<>>
\* applyDataBindingsToElement(parent, bindings): the attributes it sets on
\* the parent, `data-binding-${bindingTarget}` = bindingKey.  A binding
\* without key or without target ends the loop with a ReferenceError.
RECURSIVE ApplyDataBindingsToElement(_)
ApplyDataBindingsToElement(bindings) ==
    IF bindings = <<>> THEN <<>>
    ELSE LET binding == Head(bindings)
         IN  IF binding.key = <<>> \/ binding.target = <<>> THEN <<>>
             ELSE << Attribute(<<"data", "binding">> \o binding.target, binding.key) >>
                  \o ApplyDataBindingsToElement(Tail(bindings))
\* the binding attributes an element carries once the page has started
BindingAttributes(e) ==
    IF StoreDoc[e].attr = "bind"
    THEN << Attribute(<<"data", "bind", "text">>, StoreDoc[e].key) >>
    ELSE ApplyDataBindingsToElement(FindChildDataBindings(e))

\* one entry of the log of a store operation
Entry(kind, type, path, matched, value, oldValue, el) ==
    [kind |-> kind, type |-> type, path |-> path, matched |-> matched,
     value |-> value, oldValue |-> oldValue, el |-> el]

\* elements matching a selector, in document order
Matching(attr, type, key) ==
    SelectSeq([e \in Els |-> e],
              LAMBDA e : StoreDoc[e] = El(attr, type, key))

\* updateDataBindings(key, value): every element whose data-bind-text names
\* exactly this key shows the value
\* the elements with an attribute data-bind-text whose value is the key
IsBoundTo(e, key) ==
    \E i \in 1..Len(BindingAttributes(e)) :
        LET attr == BindingAttributes(e)[i]
        IN  /\ StartsWithDataBind(attr.name)
            /\ attr.value = key
            /\ SubSeq(attr.name, 3, Len(attr.name)) = <<"text">>
BoundTo(key) == SelectSeq([e \in Els |-> e], LAMBDA e : IsBoundTo(e, key))
UpdateDataBindings(key, value, txt) ==
    [e \in TextEls |-> IF IsBoundTo(e, key) THEN ToText(value) ELSE txt[e]]

BindEntries(key, value) ==
    LET els == BoundTo(key)
    IN  [i \in 1..Len(els) |-> Entry("bind", "", key, key, value, Undefined, els[i])]

\* the own-event loop: handlers keyed exactly to the path
OwnEntries(type, path, value, oldValue) ==
    LET els == Matching("own", type, path)
    IN  [i \in 1..Len(els) |-> Entry("own", type, path, path, value, oldValue, els[i])]

\* the child-event loop: i runs from parts.length - 1 down to 1, matching
\* parts.slice(0, i).join(".") + ".*"
RECURSIVE ChildEntries(_, _, _, _, _)
ChildEntries(type, path, value, oldValue, i) ==
    IF i <= 0 THEN <<>>
    ELSE LET key == SubSeq(path, 1, i)
             els == Matching("child", type, key)
         IN  [j \in 1..Len(els) |->
                 Entry("child", type, path, key, value, oldValue, els[j])]
             \o ChildEntries(type, path, value, oldValue, i - 1)

\* The companion target attributes of the handler elements: `own` is the
\* value of on-data-<type>-target, `child` that of
\* on-data-child-<type>-target, <<>> when the element has no such attribute.
\* One element of the page has the id "box"; none has the id "gone".
Targets(own, child) == [own |-> own, child |-> child]
TargetAttributes(e) ==
    CASE e = 4  -> Targets(<<"box">>, <<>>)
      [] e = 6  -> Targets(<<"gone">>, <<>>)
      [] e = 10 -> Targets(<<>>, <<"box">>)
      [] e = 11 -> Targets(<<"box">>, <<"box">>)
      [] OTHER  -> Targets(<<>>, <<>>)
\* document.getElementById(id): the element, or null
GetElementById(id) == IF id = <<"box">> THEN "box" ELSE "null"
\* let targetElement = undefined; if (targetId) targetElement = getElementById
ResolveTarget(targetId) ==
    IF targetId = <<>> THEN "undefined" ELSE GetElementById(targetId)
\* the targetElement argument of the invokeEventAction call an entry of
\* the log records.  The own loop passes the element it resolved from
\* on-data-<type>-target; the child loop resolves the same attribute and
\* then passes undefined.
TargetElement(entry) ==
    IF entry.kind = "own" THEN ResolveTarget(TargetAttributes(entry.el).own)
    ELSE "undefined"

\* the elements whose handler expression raises an error when it is run
Throwing == {5, 13}
\* an invokeEventAction without its try / catch
InvokeUncaught(e) == IF e \in Throwing THEN "threw" ELSE "returned"
\* invokeEventAction(handler, el, ..): how the call ends.  The error of a
\* handler is caught and logged there, so the call always returns.
InvokeEventAction(e) == IF e \in Throwing THEN "caught" ELSE "returned"

\* The handlers a loop of dispatchDataEvent invokes.  The own-event loop has
\* a try / catch of its own around the call; the child-event loop has none,
\* so an error coming out of invokeEventAction would end it there, and
\* dispatchDataEvent with it.
Escapes(entries) == \E i \in 1..Len(entries) : InvokeEventAction(entries[i].el) = "threw"
UntilEscape(entries) ==
    IF Escapes(entries)
    THEN SubSeq(entries, 1, CHOOSE i \in 1..Len(entries) :
                                /\ InvokeEventAction(entries[i].el) = "threw"
                                /\ \A j \in 1..(i - 1) :
                                      InvokeEventAction(entries[j].el) # "threw")
    ELSE entries

\* a dispatchDataEvent that broadcasts the global event before anything else
DispatchEventFirst(type, path, value, oldValue) ==
    << Entry("event", type, path, path, value, oldValue, 0) >>
    \o BindEntries(path, value)
    \o OwnEntries(type, path, value, oldValue)
    \o ChildEntries(type, path, value, oldValue, Len(path) - 1)

\* dispatchDataEvent(type, path, value, oldValue): bindings, own handlers,
\* child handlers, then the global data:<type> event
DispatchLog(type, path, value, oldValue) ==
    LET children == ChildEntries(type, path, value, oldValue, Len(path) - 1)
    IN  BindEntries(path, value)
        \o OwnEntries(type, path, value, oldValue)
        \o UntilEscape(children)
        \o (IF Escapes(children) THEN <<>>
            ELSE << Entry("event", type, path, path, value, oldValue, 0) >>)

DispatchDataEvent(type, path, value, oldValue, txt) ==
    [text |-> UpdateDataBindings(path, value, txt),
     log |-> DispatchLog(type, path, value, oldValue)]

----------------------------------------------------------------------------
(* Store operations.                                                       *)

\* The loop `for (i < keys.length - 1) { if (!(k in obj)) return; obj = obj[k] }`
\* of setData and removeData.  `k in obj` raises a TypeError when obj is not
\* an object.
RECURSIVE Walk(_, _)
Walk(obj, ks) ==
    IF ks = <<>> THEN [st |-> "ok", obj |-> obj]
    ELSE IF ~IsObject(obj) THEN [st |-> "throw", obj |-> obj]
    ELSE IF ~In(obj, Head(ks)) THEN [st |-> "missing", obj |-> obj]
    ELSE Walk(Prop(obj, Head(ks)), Tail(ks))

\* getData(path): reduce((o, k) => (o != null ? o[k] : undefined), state)
RECURSIVE Reduce(_, _)
Reduce(o, ks) ==
    IF ks = <<>> THEN o
    ELSE Reduce(IF IsNullish(o) THEN Undefined ELSE Prop(o, Head(ks)), Tail(ks))
GetData(path) == Reduce(state, path)
GetIn(st, path) == Reduce(st, path)

\* the per-child "added" dispatches at the end of setData
RECURSIVE ChildDispatch(_, _, _, _)
ChildDispatch(path, value, ks, acc) ==
    IF ks = <<>> THEN acc
    ELSE LET d == DispatchDataEvent("added", Append(path, Head(ks)), value,
                                    Undefined, acc.text)
         IN  ChildDispatch(path, value, Tail(ks),
                           [text |-> d.text, log |-> acc.log \o d.log])

\* what an operation that returns early leaves behind
Unchanged(end) ==
    [state |-> state, ctor |-> ctor, text |-> text, log |-> <<>>, end |-> end]

\* setData, `if (!(k in obj)) { console.error(...); return; }`
MissingPrefix(path, value) == Unchanged("abort")

\* setData(path, value): the store, the texts and the log it leaves, and
\* how it ended
SetDataResult(path, value) ==
    LET w == Walk(state, Front(path))
        lastKey == Last(path)
    IN  IF w.st = "missing" THEN MissingPrefix(path, value)
        ELSE IF w.st = "throw" \/ ~IsObject(w.obj) THEN Unchanged("throw")
        ELSE LET existed == In(w.obj, lastKey)
                 oldValue == Prop(w.obj, lastKey)
             IN  IF IsNullish(value)
                 THEN IF existed
                      THEN LET d == DispatchDataEvent("deleted", path, Undefined,
                                                      oldValue, text)
                           IN  Deleted(state, ctor, path)
                               @@ [text |-> d.text, log |-> d.log, end |-> "ok"]
                      ELSE Unchanged("warn")
                 ELSE LET d == DispatchDataEvent(IF existed THEN "changed" ELSE "added",
                                                 path, value, oldValue, text)
                          c == IF IsObjectLike(value)
                               THEN ChildDispatch(path, value, EntryKeys(value), d)
                               ELSE d
                      IN  Written(state, ctor, path, value)
                          @@ [text |-> c.text, log |-> c.log, end |-> "ok"]

\* a removeData that deletes the key and tells nobody
RemoveDataSilent(path) ==
    LET w == Walk(state, Front(path))
    IN  IF w.st = "missing" THEN Unchanged("abort")
        ELSE IF w.st = "throw" \/ ~IsObject(w.obj) THEN Unchanged("throw")
        ELSE IF In(w.obj, Last(path))
             THEN Deleted(state, ctor, path)
                  @@ [text |-> text, log |-> <<>>, end |-> "ok"]
             ELSE Unchanged("warn")

\* removeData(path)
RemoveDataResult(path) ==
    LET w == Walk(state, Front(path))
        lastKey == Last(path)
    IN  IF w.st = "missing" THEN Unchanged("abort")
        ELSE IF w.st = "throw" \/ ~IsObject(w.obj) THEN Unchanged("throw")
        ELSE IF In(w.obj, lastKey)
             THEN LET d == DispatchDataEvent("deleted", path, Undefined,
                                             Prop(w.obj, lastKey), text)
                  IN  Deleted(state, ctor, path)
                      @@ [text |-> d.text, log |-> d.log, end |-> "ok"]
             ELSE Unchanged("warn")

\* resetState(): for (const key of Object.keys(state)) { delete; dispatch }
RECURSIVE ResetFrom(_, _)
ResetFrom(ks, acc) ==
    IF ks = <<>> THEN acc
    ELSE LET key == Head(ks)
             d == DispatchDataEvent("deleted", <<key>>, Undefined,
                                    Prop(acc.state, key), acc.text)
         IN  ResetFrom(Tail(ks), [state |-> DelProp(acc.state, key),
                                  text |-> d.text, log |-> acc.log \o d.log])
ResetStateResult ==
    ResetFrom(EntryKeys(state), [state |-> state, text |-> text, log |-> <<>>])
    @@ [ctor |-> ctor, end |-> "ok"]

----------------------------------------------------------------------------
(* The inputs of the store operations.                                     *)

Paths == UNION {[1..n -> Keys] : n \in 1..MaxPathLen}
\* the paths that name the inherited property
InheritedPaths == {<<Inherited>>, <<Inherited, "a">>}
AllPaths == Paths \cup InheritedPaths

InputValues == {
    Undefined, Null, Num(1), Num(2),
    Obj(<<P("b", Num(1))>>),
    Arr(<<P("0", Num(2)), P("1", Num(1))>>) }

Op(name, path, value, end) == [name |-> name, path |-> path, value |-> value, end |-> end]

\* setData(path, value) on a store that may grow to `most` properties
SetDataWithin(path, value, most) ==
    \E r \in {SetDataResult(path, value)} :
        /\ Size(r.state) + Size(Builtin("Object", r.ctor)) <= most
        /\ state' = r.state
        /\ ctor' = r.ctor
        /\ text' = r.text
        /\ log' = r.log
        /\ last' = Op("set", path, value, r.end)
        /\ UNCHANGED <<loadVars, compVars, dirVars, pageVars>>

SetData(path, value) == SetDataWithin(path, value, MaxSize)

RemoveData(path) ==
    \E r \in {RemoveDataResult(path)} :
        /\ state' = r.state
        /\ ctor' = r.ctor
        /\ text' = r.text
        /\ log' = r.log
        /\ last' = Op("remove", path, Undefined, r.end)
        /\ UNCHANGED <<loadVars, compVars, dirVars, pageVars>>

ResetState ==
    \E r \in {ResetStateResult} :
        /\ state' = r.state
        /\ ctor' = r.ctor
        /\ text' = r.text
        /\ log' = r.log
        /\ last' = Op("reset", <<>>, Undefined, r.end)
        /\ UNCHANGED <<loadVars, compVars, dirVars, pageVars>>

----------------------------------------------------------------------------
(* The page.  A string the code converts (a source URL, a text) is a       *)
(* sequence of symbols, so that toLowerCase and endsWith act on it.        *)

NoSrc == <<>>                   \* an attribute that is absent (null)
SA == <<"a", ".html">>
SB == <<"b", ".html">>
SM == <<"Doc", ".MD">>
Srcs == {SA, SB, SM}

Lower(sym) == CASE sym = "Doc" -> "doc" [] sym = ".MD" -> ".md" [] OTHER -> sym
ToLowerCase(str) == [i \in 1..Len(str) |-> Lower(str[i])]
EndsWith(str, sym) == str # <<>> /\ str[Len(str)] = sym

(* Markup is a sequence of node templates; a node of the page is a         *)
(* template whose kids are node ids, with the id of its parent (0: none).  *)
(*   tag  : "body" "div" "pre" "code" "fragment" "script" "text" "ws"      *)
(*          "token" ("ws" is a text of white space only, "token" a         *)
(*          {{key}})                                                       *)
(*   val  : the text of a text node, the key of a token                    *)
(*   src, cond, fb : the src, condition and fallback attributes of a       *)
(*          fragment; cond says what evaluating the expression does:       *)
(*          "" (no condition), "truthy", "falsy", "throws"; src is also    *)
(*          the src attribute of a script                                  *)
(* Every <fragment> of the model also carries onload="L" and onerror="E". *)

T(tag, val, src, cond, fb, kids) ==
    [tag |-> tag, val |-> val, src |-> src, cond |-> cond, fb |-> fb, kids |-> kids]
Text(val) == T("text", val, NoSrc, "", NoSrc, <<>>)
Txt == Text(<<"t">>)
Ws == T("ws", <<" ">>, NoSrc, "", NoSrc, <<>>)
Tok(key) == T("token", key, NoSrc, "", NoSrc, <<>>)
Frag(src, cond, fb, inline) == T("fragment", <<>>, src, cond, fb, inline)
Div(kids) == T("div", <<>>, NoSrc, "", NoSrc, kids)
Code(kids) == T("code", <<>>, NoSrc, "", NoSrc, kids)
Pre(kids) == T("pre", <<>>, NoSrc, "", NoSrc, kids)
Script(src) == T("script", <<>>, src, "", NoSrc, <<>>)
SX == <<"x", ".js">>

Body == 1
Node(t, kids, parent) ==
    [tag |-> t.tag, val |-> t.val, src |-> t.src, cond |-> t.cond, fb |-> t.fb,
     kids |-> kids, parent |-> parent]

\* the number of nodes the markup makes
RECURSIVE Count(_)
Count(tmpls) ==
    IF tmpls = <<>> THEN 0 ELSE 1 + Count(Head(tmpls).kids) + Count(Tail(tmpls))

\* the ids of the top nodes of the markup, its nodes being numbered in
\* document order from base + 1
RECURSIVE TopIds(_, _)
TopIds(tmpls, base) ==
    IF tmpls = <<>> THEN <<>>
    ELSE <<base + 1>> \o TopIds(Tail(tmpls), base + 1 + Count(Head(tmpls).kids))

RECURSIVE Flatten(_, _, _)
Flatten(tmpls, parent, base) ==
    IF tmpls = <<>> THEN <<>>
    ELSE <<Node(Head(tmpls), TopIds(Head(tmpls).kids, base + 1), parent)>>
         \o Flatten(Head(tmpls).kids, base + 1, base + 1)
         \o Flatten(Tail(tmpls), parent, base + 1 + Count(Head(tmpls).kids))

\* wrapper.innerHTML = html: fresh nodes for the markup, under `parent`
Alloc(d, tmpls, parent) ==
    [dom |-> d \o Flatten(tmpls, parent, Len(d)), ids |-> TopIds(tmpls, Len(d))]

\* el.innerHTML: the markup of the nodes
RECURSIVE Serialize(_, _)
Serialize(d, ids) ==
    IF ids = <<>> THEN <<>>
    ELSE LET n == d[Head(ids)]
         IN  <<T(n.tag, n.val, n.src, n.cond, n.fb, Serialize(d, n.kids))>>
             \o Serialize(d, Tail(ids))

\* String.prototype.trim on markup: the white space at both ends goes
RECURSIVE TrimStart(_)
TrimStart(tmpls) ==
    IF tmpls # <<>> /\ Head(tmpls).tag = "ws" THEN TrimStart(Tail(tmpls)) ELSE tmpls
RECURSIVE TrimEnd(_)
TrimEnd(tmpls) ==
    IF tmpls # <<>> /\ Last(tmpls).tag = "ws" THEN TrimEnd(Front(tmpls)) ELSE tmpls
Trim(tmpls) == TrimEnd(TrimStart(tmpls))

\* el.closest("code")
RECURSIVE InsideCode(_, _)
InsideCode(d, id) ==
    d[id].tag = "code" \/ (d[id].parent # 0 /\ InsideCode(d, d[id].parent))

\* the descendants of the nodes, in document order
RECURSIVE Preorder(_, _)
Preorder(d, ids) ==
    IF ids = <<>> THEN <<>>
    ELSE <<Head(ids)>> \o Preorder(d, d[Head(ids)].kids) \o Preorder(d, Tail(ids))

\* Array.from(root.querySelectorAll("fragment[src]")).filter(!closest("code"))
AllFragments(d) ==
    SelectSeq(Preorder(d, d[Body].kids),
              LAMBDA id : d[id].tag = "fragment" /\ d[id].src # NoSrc
                          /\ ~InsideCode(d, id))

InSeq(s, x) == \E i \in 1..Len(s) : s[i] = x
Splice(kids, el, ids) ==
    LET j == CHOOSE i \in 1..Len(kids) : kids[i] = el
    IN  SubSeq(kids, 1, j - 1) \o ids \o SubSeq(kids, j + 1, Len(kids))

\* el.replaceWith(...nodes); nothing happens when el has no parent
ReplaceWith(d, el, ids) ==
    LET p == d[el].parent
    IN  IF p = 0 THEN d
        ELSE [i \in 1..Len(d) |->
                 IF i = p THEN [d[i] EXCEPT !.kids = Splice(d[p].kids, el, ids)]
                 ELSE IF i = el THEN [d[i] EXCEPT !.parent = 0]
                 ELSE IF InSeq(ids, i) THEN [d[i] EXCEPT !.parent = p]
                 ELSE d[i]]
\* el.remove()
Remove(d, el) == ReplaceWith(d, el, <<>>)

\* resolveFragmentSource(fragData): the source to load, NoSrc for null
ResolveFragmentSource(frag) ==
    IF frag.cond = "" THEN frag.src
    ELSE IF frag.cond = "truthy" THEN frag.src
    ELSE IF frag.fb # NoSrc THEN frag.fb
    ELSE NoSrc

\* fetchFragment(frag): the url it asks for
FetchUrl(frag, targetSrc) == frag.src

\* collectParams(frag, src, fragId), for a fragment without id and param-*
CollectParams(frag) == [key \in {<<"frag_src">>} |-> frag.src]

\* substituteParams(html, params)
RECURSIVE SubstituteParams(_, _)
SubstituteParams(tmpls, params) ==
    IF tmpls = <<>> THEN <<>>
    ELSE LET t == Head(tmpls)
             stateVal == GetData(t.val)
             one == IF t.tag # "token"
                        THEN [t EXCEPT !.kids = SubstituteParams(t.kids, params)]
                    ELSE IF t.val \in DOMAIN params THEN Text(params[t.val])
                    ELSE IF t.val = <<Inherited>>
                        THEN Text(<<ToText(Builtin("Object", ctor))>>)
                    ELSE IF ~IsNullish(stateVal) THEN Text(<<ToText(stateVal)>>)
                    ELSE t
         IN  <<one>> \o SubstituteParams(Tail(tmpls), params)

\* renderMarkdown(raw) with the default processor: `<pre>${text}</pre>`
RenderMarkdown(raw) == <<Pre(raw)>>
\* The processors setMarkdownProcessor may have registered before the page
\* starts: none ("default"), or a function that returns no string
\* ("nothing": it returns undefined, or a promise).  renderMarkdown hands
\* on what the processor returns, and `html.replace` in substituteParams
\* then raises a TypeError inside the try of loadFragment.
MarkdownProcessors == {"default", "nothing"}

\* getFragmentData(el): the fragment context
Onload == <<"L">>
Onerror == <<"E">>
GetFragmentData(d, el) ==
    [el |-> el, src |-> d[el].src, condition |-> d[el].cond, fallback |-> d[el].fb,
     onload |-> Onload, onerror |-> Onerror]

\* the <script src> elements among the nodes and their descendants, in
\* document order: what runScripts hands to handleExternalScript
ScriptsUnder(d, ids) ==
    SelectSeq(Preorder(d, ids), LAMBDA id : d[id].tag = "script" /\ d[id].src # NoSrc)
\* handleExternalScript(root, src): a copy goes to the head unless the head
\* holds a script of that src, and root is removed
HandleExternalScript(d, hd, root) ==
    [dom |-> Remove(d, root),
     head |-> IF InSeq(hd, d[root].src) THEN hd ELSE Append(hd, d[root].src)]
\* parseFragment: newNodes.forEach(n => { handleFragmentLinks(n); runScripts(n) })
RECURSIVE RunScripts(_, _, _)
RunScripts(d, hd, scripts) ==
    IF scripts = <<>> THEN [dom |-> d, head |-> hd]
    ELSE LET r == HandleExternalScript(d, hd, Head(scripts))
         IN  RunScripts(r.dom, r.head, Tail(scripts))

IsMarkdown(src) ==
    EndsWith(src, ".md") \/ EndsWith(src, ".markdown") \/ EndsWith(src, ".mkd")

\* a useInlineFallback that drops the inline content
UseInlineFallbackRemoves(el) == dom' = Remove(dom, el)

\* useInlineFallback(frag)
UseInlineFallback(el) ==
    \E fallbackContent \in {Trim(Serialize(dom, dom[el].kids))} :
        IF fallbackContent # <<>>
        THEN \E wrapper \in {Alloc(dom, fallbackContent, 0)} :
                 dom' = ReplaceWith(wrapper.dom, el, wrapper.ids)
        ELSE dom' = Remove(dom, el)

\* a + b on what loadFragment returns
JsAdd(a, b) == IF a.k = "number" /\ b.k = "number" THEN Num(a.n + b.n) ELSE NaN

Frame(el, call, phase, target, nodes, count) ==
    [el |-> el, call |-> call, phase |-> phase, target |-> target,
     nodes |-> nodes, count |-> count]
CallRec(el, url, ok, why) == [el |-> el, url |-> url, ok |-> ok, why |-> why]
Ev(name, el, src, nodes, count) ==
    [name |-> name, el |-> el, src |-> src, nodes |-> nodes, count |-> count]
Top == stack[Len(stack)]

\* `loadedCount += await loadFragment(..)` in the caller: the enclosing
\* loadFragment, or loadFragments when there is none
Returned(stk, ret) ==
    IF stk = <<>> THEN stack' = <<>> /\ total' = JsAdd(total, ret)
    ELSE /\ stack' = [stk EXCEPT ![Len(stk)].count = JsAdd(@, ret)]
         /\ total' = total

\* a loadFragment whose error goes on to its caller
Rethrows(el, stk) == dom' = dom /\ stack' = <<>> /\ total' = total

\* loadFragment: catch (err) { console.error(..); element.remove(); }
\* return loadedCount;
CatchFragmentError(el, stk) == dom' = Remove(dom, el) /\ Returned(stk, Num(0))

\* a fragment:loaded that is not dispatched
NotDispatched(evts, el, src, nodes) == evts

\* dispatch("fragment:loaded", { id, src, nodes })
FragmentLoaded(evts, el, src, nodes) ==
    Append(evts, Ev("fragment:loaded", el, src, nodes, Undefined))

\* a loop that does not wait for the call it made
NotAwaited(stk) == TRUE

\* loadFragments: `await loadFragment(fragEl)` has returned
Awaited(stk) == stk = <<>>

\* loadFragment(element) up to its first await, called with `stk` in progress
StartLoad(el, stk) ==
    LET targetSrc == ResolveFragmentSource(dom[el])
    IN  IF targetSrc = NoSrc
        THEN /\ UseInlineFallback(el)
             /\ calls' = Append(calls, CallRec(el, NoSrc, FALSE, "nosource"))
             /\ Returned(stk, Undefined)
             /\ UNCHANGED events
        ELSE /\ Len(stk) < MaxStack
             /\ stack' = Append(stk, Frame(el, Len(calls) + 1, "fetch", targetSrc,
                                           <<>>, Num(0)))
             /\ calls' = Append(calls, CallRec(el, FetchUrl(dom[el], targetSrc),
                                               FALSE, "fetching"))
             /\ UNCHANGED <<dom, events, total>>

\* initialize() up to the first fetch of loadFragments(document); the page
\* holds no behavior, template, trigger, data-binding or code[src] element
Initialize ==
    /\ pc = "idle"
    /\ pc' = "loading"
    /\ queue' = AllFragments(dom)
    /\ total' = Num(0)
    /\ UNCHANGED <<dom, site, stack, calls, events, storeVars, compVars, dirVars, pageVars>>

\* loadFragments: for (const fragEl of allFragments) await loadFragment(fragEl)
NextFragment ==
    /\ pc = "loading"
    /\ Awaited(stack)
    /\ queue # <<>>
    /\ queue' = Tail(queue)
    /\ StartLoad(Head(queue), stack)
    /\ UNCHANGED <<site, pc, storeVars, compVars, dirVars, pageVars>>

IsFragmentNode(id) == dom[id].tag = "fragment"
HasFragment(nodes) == \E i \in 1..Len(nodes) : IsFragmentNode(nodes[i])
FirstFragment(nodes) ==
    CHOOSE i \in 1..Len(nodes) :
        IsFragmentNode(nodes[i]) /\ \A j \in 1..(i - 1) : ~IsFragmentNode(nodes[j])

\* loadFragment: for (const n of newNodes) if n is a <fragment> element,
\* loadedCount += await loadFragment(n)
NestedFragment ==
    /\ stack # <<>>
    /\ Top.phase = "children"
    /\ HasFragment(Top.nodes)
    /\ LET i == FirstFragment(Top.nodes)
           stk == [stack EXCEPT ![Len(stack)].nodes = SubSeq(@, i + 1, Len(@))]
       IN  StartLoad(Top.nodes[i], stk)
    /\ UNCHANGED <<site, pc, queue, storeVars, compVars, dirVars, pageVars>>

\* loadFragment: the loop is over, return loadedCount
FragmentReturn ==
    /\ stack # <<>>
    /\ Top.phase = "children"
    /\ ~HasFragment(Top.nodes)
    /\ Returned(Front(stack), Top.count)
    /\ UNCHANGED <<dom, site, pc, queue, calls, events, storeVars, compVars, dirVars, pageVars>>

\* loadFragment from the answer of fetch on
FetchDone ==
    /\ stack # <<>>
    /\ Top.phase = "fetch"
    /\ LET el == Top.el
           frag == dom[el]
           res == site[calls[Top.call].url]
           src == ToLowerCase(frag.src)
           params == CollectParams(frag)
       IN  IF ~res.ok \/ res.body = <<>>
           THEN /\ UseInlineFallback(el)
                /\ calls' = [calls EXCEPT ![Top.call].ok = res.ok,
                                          ![Top.call].why = IF res.ok THEN "empty"
                                                            ELSE "fetchfail"]
                /\ Returned(Front(stack), Undefined)
                /\ UNCHANGED <<events, head>>
           ELSE IF IsMarkdown(src) /\ markdownProcessor = "nothing"
           THEN /\ CatchFragmentError(el, Front(stack))
                /\ calls' = [calls EXCEPT ![Top.call].ok = TRUE,
                                          ![Top.call].why = "threw"]
                /\ UNCHANGED <<events, head>>
           ELSE IF IsMarkdown(src)
           THEN \E substituted \in {SubstituteParams(RenderMarkdown(res.body), params)} :
                \E wrapper \in {Alloc(dom, substituted, 0)} :
                    /\ dom' = ReplaceWith(wrapper.dom, el, wrapper.ids)
                    /\ events' = FragmentLoaded(events, el, src, wrapper.ids)
                    /\ calls' = [calls EXCEPT ![Top.call].ok = TRUE,
                                              ![Top.call].why = "loaded"]
                    /\ Returned(Front(stack), Num(1))
                    /\ UNCHANGED head
           ELSE \E substituted \in {SubstituteParams(res.body, params)} :
                \E wrapper \in {Alloc(dom, substituted, 0)} :
                \E ran \in {RunScripts(ReplaceWith(wrapper.dom, el, wrapper.ids), head,
                                       ScriptsUnder(wrapper.dom, wrapper.ids))} :
                    /\ dom' = ran.dom
                    /\ head' = ran.head
                    /\ events' = FragmentLoaded(events, el, Top.target, wrapper.ids)
                    /\ calls' = [calls EXCEPT ![Top.call].ok = TRUE,
                                              ![Top.call].why = "loaded"]
                    /\ stack' = [stack EXCEPT ![Len(stack)].phase = "children",
                                              ![Len(stack)].nodes = wrapper.ids,
                                              ![Len(stack)].count = Num(1)]
                    /\ UNCHANGED total
    /\ UNCHANGED <<site, pc, queue, storeVars, compVars, dirVars, markdownProcessor, handled,
                   inflight, spliced, suspended>>

\* initialize: dispatch("page:load_complete", { count: loadedCount, .. })
Complete ==
    /\ pc = "loading"
    /\ stack = <<>>
    /\ queue = <<>>
    /\ pc' = "done"
    /\ events' = Append(events, Ev("page:load_complete", 0, NoSrc, <<>>, total))
    /\ UNCHANGED <<dom, site, queue, total, stack, calls, storeVars, compVars, dirVars, pageVars>>

----------------------------------------------------------------------------
(* Templates.  A <template> is its id ("" when it has none) and its        *)
(* innerHTML; the registry is the sequence of the <template> children of   *)
(* <templates id="templates">.                                             *)

Template(id, html) == [id |-> id, html |-> html]

\* container.querySelector(`template#${id}`): the position of the first
\* template with the id, 0 when there is none
QueryTemplate(container, id) ==
    IF \E i \in 1..Len(container) : container[i].id = id
    THEN CHOOSE i \in 1..Len(container) :
            /\ container[i].id = id
            /\ \A j \in 1..(i - 1) : container[j].id # id
    ELSE 0

\* loadTemplates(root): the registry after the <template>s under root, in
\* document order, have been moved in
RECURSIVE LoadTemplatesInto(_, _)
LoadTemplatesInto(docTemplateContainer, allTemplates) ==
    IF allTemplates = <<>> THEN docTemplateContainer
    ELSE LET tmpl == Head(allTemplates)
         IN  LoadTemplatesInto(
                 IF tmpl.id = "" THEN docTemplateContainer
                 ELSE IF QueryTemplate(docTemplateContainer, tmpl.id) # 0
                      THEN docTemplateContainer
                 ELSE Append(docTemplateContainer, tmpl),
                 Tail(allTemplates))

\* moveTemplateToGlobal(tmpl, templatesRoot)
MoveTemplateToGlobal(tmpl, templatesRoot) ==
    IF tmpl.id = "" THEN templatesRoot
    ELSE IF QueryTemplate(templatesRoot, tmpl.id) # 0 THEN templatesRoot
    ELSE Append(templatesRoot, tmpl)

\* The loop of loadTemplateLinks over the templates of a fetched pack:
\* `moveTemplateToGlobal(tmpl, mainContainer)`.  No mainContainer is declared
\* anywhere, so evaluating the argument of the first call raises a
\* ReferenceError; the catch of loadTemplateLinks logs it and the pack is left.
LinkedTemplatesInto(docTemplateContainer, templates) == docTemplateContainer

\* the first declaration of each id, in the order the ids were first declared
RECURSIVE Declared(_, _)
Declared(seen, tmpls) ==
    IF tmpls = <<>> THEN seen
    ELSE Declared(IF Head(tmpls).id = "" \/ QueryTemplate(seen, Head(tmpls).id) # 0
                  THEN seen ELSE Append(seen, Head(tmpls)),
                  Tail(tmpls))

\* loadTemplates(root), for the <template>s under root
LoadTemplates(allTemplates) ==
    /\ registry' = LoadTemplatesInto(registry, allTemplates)
    /\ first' = Declared(first, allTemplates)
    /\ UNCHANGED <<dest, made, storeVars, loadVars, dirVars, pageVars>>

\* loadTemplateLinks(root), for one <link type="templates" src> whose fetch
\* answers with the templates
LoadTemplateLinks(templates) ==
    /\ registry' = LinkedTemplatesInto(registry, templates)
    /\ first' = Declared(first, templates)
    /\ UNCHANGED <<dest, made, storeVars, loadVars, dirVars, pageVars>>

Destination == "dest"       \* the id of the one destination element of the page
Made(templateID, params, clearParent, html, inserted, end) ==
    [tid |-> templateID, params |-> params, clear |-> clearParent, html |-> html,
     inserted |-> inserted, store |-> state, end |-> end]

\* a loadComponent that inserts the markup of the template as it stands
InsertsUnsubstituted(html, params) == html

\* loadComponent: substituteParams(html, params || {})
Substituted(html, params) == SubstituteParams(html, params)

\* loadComponent(destinationID, templateID, params, clearParent)
LoadComponent(destinationID, templateID, params, clearParent) ==
    /\ \E tmpl \in {QueryTemplate(registry, templateID)} :
          IF destinationID # Destination \/ tmpl = 0
          THEN /\ made' = Made(templateID, params, clearParent, <<>>, <<>>, "missing")
               /\ UNCHANGED dest
          ELSE \E html \in {registry[tmpl].html} :
                  IF Trim(html) = <<>>
                  THEN /\ dest' = <<>>
                       /\ made' = Made(templateID, params, clearParent, html, <<>>, "empty")
                  ELSE \E substituted \in {Substituted(html, params)} :
                          /\ dest' = (IF clearParent THEN <<>> ELSE dest) \o substituted
                          /\ Len(dest') <= MaxDest
                          /\ made' = Made(templateID, params, clearParent, html,
                                          substituted, "ok")
    /\ UNCHANGED <<registry, first, storeVars, loadVars, dirVars, pageVars>>

----------------------------------------------------------------------------
(* Behaviors and triggers.  An attribute value is the sequence of its      *)
(* parts between the dashes; a <trigger> is its attributes, a <behavior>   *)
(* its id and its <trigger> children.                                      *)

Absent == <<>>              \* getAttribute gives null: no such attribute
Empty == <<"">>             \* the attribute is there and holds ""
Falsy(v) == v \in {Absent, Empty}
\* v || null
OrNull(v) == IF Falsy(v) THEN Absent ELSE v

TriggerEl(on, action, key, target, once, prevent, stop) ==
    [on |-> on, action |-> action, key |-> key, target |-> target,
     once |-> once, prevent |-> prevent, stop |-> stop]
\* the null that getTriggerData returns
NoTriggerData == TriggerEl(Absent, Absent, Absent, Absent, FALSE, FALSE, FALSE)
\* getTriggerData(el)
GetTriggerData(el) ==
    IF Falsy(el.on) \/ Falsy(el.action) THEN NoTriggerData
    ELSE TriggerEl(OrNull(el.on), OrNull(el.action), OrNull(el.key), OrNull(el.target),
                   el.once, el.prevent, el.stop)

Behavior(id, triggers) == [id |-> id, triggers |-> triggers]
\* bEl.id?.trim()
TrimId(id) == CASE id = " tip " -> "tip" [] id = " " -> "" [] OTHER -> id

\* Frontend._behaviors.has(id) and .get(id), the Map being the sequence of
\* its entries
BehaviorsHas(map, id) == \E i \in 1..Len(map) : map[i].id = id
BehaviorsGet(map, id) == map[CHOOSE i \in 1..Len(map) : map[i].id = id].triggers
\* Frontend._behaviors.set(id, triggers)
BehaviorsSet(map, id, triggers) ==
    IF BehaviorsHas(map, id)
    THEN [i \in 1..Len(map) |-> IF map[i].id = id THEN Behavior(id, triggers) ELSE map[i]]
    ELSE Append(map, Behavior(id, triggers))

\* findChildTriggers(bEl).map(getTriggerData)
TriggerList(bEl) == [i \in 1..Len(bEl.triggers) |-> GetTriggerData(bEl.triggers[i])]

\* a registerBehaviorElement that lets a later declaration replace the entry
RegisterOverwrites(map, bEl) ==
    LET id == TrimId(bEl.id)
    IN  IF id = "" THEN map
        ELSE IF Len(TriggerList(bEl)) = 0 THEN map
        ELSE BehaviorsSet(map, id, TriggerList(bEl))

\* registerBehaviorElement(bEl, source): the Map it leaves
RegisterBehaviorElement(map, bEl) ==
    LET id == TrimId(bEl.id)
    IN  IF id = "" THEN map
        ELSE IF BehaviorsHas(map, id) THEN map
        ELSE IF Len(TriggerList(bEl)) = 0 THEN map
        ELSE BehaviorsSet(map, id, TriggerList(bEl))

\* for (const bEl of behaviorEls) registerBehaviorElement(bEl, ..)
RECURSIVE RegisterAll(_, _)
RegisterAll(map, behaviorEls) ==
    IF behaviorEls = <<>> THEN map
    ELSE RegisterAll(RegisterBehaviorElement(map, Head(behaviorEls)), Tail(behaviorEls))

\* loadBehaviorsElements(root), for the <behavior id> elements under root
LoadBehaviorsElements(inlineBehaviors) ==
    /\ Len(offered) + Len(inlineBehaviors) <= MaxOffered
    /\ behaviors' = RegisterAll(behaviors, inlineBehaviors)
    /\ offered' = offered \o inlineBehaviors
    /\ UNCHANGED <<links, elem, host, storeVars, loadVars, compVars, pageVars>>

\* loadBehaviorLinks(root), for one <link type="behaviors" src> under root
\* that is or comes to be in the document, and what fetch(src) answers:
\* the pack is left alone when the document already holds a link to it
LoadBehaviorLinks(src, ok, behaviorEls) ==
    /\ links' = links \cup {src}
    /\ IF src \in links \/ ~ok
       THEN UNCHANGED <<behaviors, offered>>
       ELSE /\ Len(offered) + Len(behaviorEls) <= MaxOffered
            /\ behaviors' = RegisterAll(behaviors, behaviorEls)
            /\ offered' = offered \o behaviorEls
    /\ UNCHANGED <<elem, host, storeVars, loadVars, compVars, pageVars>>

\* parent.setAttribute(name, value) on the attributes of an element
SetAttribute(attrs, name, value) ==
    IF \E i \in 1..Len(attrs) : attrs[i].name = name
    THEN [i \in 1..Len(attrs) |->
             IF attrs[i].name = name THEN Attribute(name, value) ELSE attrs[i]]
    ELSE Append(attrs, Attribute(name, value))
HasAttribute(attrs, name) == \E i \in 1..Len(attrs) : attrs[i].name = name
GetAttribute(attrs, name) ==
    IF HasAttribute(attrs, name)
    THEN attrs[CHOOSE i \in 1..Len(attrs) : attrs[i].name = name].value
    ELSE Absent

\* the body of the loop of applyTriggersToElement for one trigger
ApplyTrigger(attrs, trigEl) ==
    LET t == GetTriggerData(trigEl)
        baseName == <<"on">> \o t.on
        a1 == IF ~Falsy(t.action) THEN SetAttribute(attrs, baseName, t.action) ELSE attrs
        a2 == IF ~Falsy(t.key) THEN SetAttribute(a1, baseName \o <<"key">>, t.key) ELSE a1
        a3 == IF ~Falsy(t.target)
              THEN SetAttribute(a2, baseName \o <<"target">>, t.target) ELSE a2
        a4 == IF t.once THEN SetAttribute(a3, baseName \o <<"once">>, Empty) ELSE a3
        a5 == IF t.prevent THEN SetAttribute(a4, baseName \o <<"prevent">>, Empty) ELSE a4
    IN  IF t = NoTriggerData THEN attrs
        ELSE IF t.stop THEN SetAttribute(a5, baseName \o <<"stop">>, Empty) ELSE a5

\* applyTriggersToElement(parent, triggers): the attributes of the parent
RECURSIVE ApplyTriggersToElement(_, _)
ApplyTriggersToElement(attrs, triggers) ==
    IF triggers = <<>> THEN attrs
    ELSE ApplyTriggersToElement(ApplyTrigger(attrs, Head(triggers)), Tail(triggers))

\* buildElementTriggers(el): the compile pass on the one element of the
\* model; every <trigger> child is removed, applied or not
BuildElementTriggers ==
    /\ elem.kids # <<>>
    /\ elem' = [attrs |-> ApplyTriggersToElement(elem.attrs, elem.kids),
                kids |-> <<>>, from |-> elem.kids]
    /\ UNCHANGED <<behaviors, offered, links, host, storeVars, loadVars, compVars,
                   pageVars>>

\* a <data-binding> element is its key and target attributes
DataBinding(key, target) == [key |-> key, target |-> target]
\* `if (!bindingKey || !bindingTarget)`: the branch that names the
\* undeclared trigEl and so raises a ReferenceError
Malformed(binding) == Falsy(binding.key) \/ Falsy(binding.target)
\* the <data-binding> children left when applyDataBindingsToElement is
\* over: each binding applied was removed in the loop; the error raised at
\* a malformed one ends the loop and, passing through
\* buildElementDataBindings, skips its clean-up loop as well
RECURSIVE LeftBehind(_)
LeftBehind(bindings) ==
    IF bindings = <<>> THEN <<>>
    ELSE IF Malformed(Head(bindings)) THEN bindings
    ELSE LeftBehind(Tail(bindings))
\* parent.setAttribute for each attribute of a list, in order
RECURSIVE SetAttributes(_, _)
SetAttributes(attrs, new) ==
    IF new = <<>> THEN attrs
    ELSE SetAttributes(SetAttribute(attrs, Head(new).name, Head(new).value), Tail(new))

\* buildElementDataBindings(el): the compile pass on the one host element
BuildElementDataBindings ==
    /\ host.kids # <<>>
    /\ host' = [attrs |-> SetAttributes(host.attrs, ApplyDataBindingsToElement(host.kids)),
                kids |-> LeftBehind(host.kids), from |-> host.kids]
    /\ UNCHANGED <<behaviors, offered, links, elem, storeVars, loadVars, compVars,
                   pageVars>>

----------------------------------------------------------------------------
(* parseFragment on content that declares behaviors and templates, inline  *)
(* and through one <link type="behaviors" src> and one                     *)
(* <link type="templates" src> ("" when the content has no such link).     *)

Content(behaviorEls, behaviorLink, templates, templateLink) ==
    [behaviors |-> behaviorEls, blink |-> behaviorLink,
     templates |-> templates, tlink |-> templateLink]
Fetch(kind, src) == [kind |-> kind, src |-> src]
\* what the packs of the site declare
PackBehaviors(src) ==
    << Behavior("menu", <<TriggerEl(<<"click">>, <<"A">>, Absent, Absent,
                                    FALSE, FALSE, FALSE)>>) >>
PackTemplates(src) == << Template("note", <<Txt>>) >>

\* loadBehaviorLinks(wrapper), called without await: it runs up to its
\* first `await fetch(src)`, unless the document already has a link to src
BehaviorFetches(content, docLinks) ==
    IF content.blink # "" /\ content.blink \notin docLinks
    THEN << Fetch("behaviors", content.blink) >> ELSE <<>>
\* loadTemplateLinks(wrapper), called without await, likewise
TemplateFetches(content) ==
    IF content.tlink # "" THEN << Fetch("templates", content.tlink) >> ELSE <<>>
\* handleFragmentLinks over the new nodes: a <link> goes to document.head
\* unless the head has a link with the same rel and href, and a pack link
\* has neither; otherwise it is removed
RECURSIVE HandleFragmentLinks(_, _)
HandleFragmentLinks(docLinks, srcs) ==
    IF srcs = <<>> THEN docLinks
    ELSE HandleFragmentLinks(IF Head(srcs) = "" \/ docLinks # {} THEN docLinks
                             ELSE {Head(srcs)},
                             Tail(srcs))

\* parseFragment(html, fragData): the inline declarations are registered,
\* the pack fetches are begun, and the content replaces the placeholder
ParseFragment(content) ==
    /\ Len(spliced) < MaxSpliced
    /\ Len(offered) + Len(content.behaviors) <= MaxOffered
    /\ inflight' = inflight \o BehaviorFetches(content, links) \o TemplateFetches(content)
    /\ behaviors' = RegisterAll(behaviors, content.behaviors)
    /\ offered' = offered \o content.behaviors
    /\ registry' = LoadTemplatesInto(registry, content.templates)
    /\ first' = Declared(first, content.templates)
    /\ spliced' = Append(spliced, content)
    /\ links' = HandleFragmentLinks(links, <<content.blink, content.tlink>>)
    /\ UNCHANGED <<elem, host, dest, made, head, markdownProcessor, handled,
                   suspended, storeVars, loadVars>>

\* fetch(src) of a pack is answered and loadBehaviorLinks or
\* loadTemplateLinks goes on from its await
PackAnswered(i, ok) ==
    /\ i \in 1..Len(inflight)
    /\ inflight' = SubSeq(inflight, 1, i - 1) \o SubSeq(inflight, i + 1, Len(inflight))
    /\ IF ~ok THEN UNCHANGED <<behaviors, offered, registry, first>>
       ELSE IF inflight[i].kind = "behaviors"
       THEN /\ Len(offered) + Len(PackBehaviors(inflight[i].src)) <= MaxOffered
            /\ behaviors' = RegisterAll(behaviors, PackBehaviors(inflight[i].src))
            /\ offered' = offered \o PackBehaviors(inflight[i].src)
            /\ UNCHANGED <<registry, first>>
       ELSE /\ registry' = LinkedTemplatesInto(registry, PackTemplates(inflight[i].src))
            /\ first' = Declared(first, PackTemplates(inflight[i].src))
            /\ UNCHANGED <<behaviors, offered>>
    /\ UNCHANGED <<links, spliced, elem, host, dest, made, head, markdownProcessor,
                   handled, suspended, storeVars, loadVars>>

----------------------------------------------------------------------------
(* The pages and the sites the loader is run on.                           *)

Conds == {"", "truthy", "falsy", "throws"}
Inlines == { <<>>, <<Ws>>, <<Ws, Txt, Ws>>, <<Frag(SB, "", NoSrc, <<>>)>> }
Fragments ==
    {Frag(src, cond, fb, inline) :
        src \in Srcs, cond \in Conds, fb \in {NoSrc, SB}, inline \in Inlines}
Docs ==
    {<<f>> : f \in Fragments}
    \cup { <<Frag(SA, "", NoSrc, <<>>), Txt, Frag(SB, "falsy", NoSrc, <<Txt>>)>>,
           <<Code(<<Frag(SA, "", NoSrc, <<>>)>>), Div(<<Frag(SB, "", NoSrc, <<>>)>>)>>,
           <<Frag(SA, "", NoSrc, <<Ws, Txt, Ws>>), Frag(SB, "throws", NoSrc, <<Ws>>)>>,
           <<Frag(NoSrc, "", NoSrc, <<Txt>>)>> }

Answer(ok, body) == [ok |-> ok, body |-> body]
Failed == Answer(FALSE, <<>>)
AnswersA == { Failed,
              Answer(TRUE, <<Txt>>),
              Answer(TRUE, <<Script(SX), Frag(SM, "", NoSrc, <<>>), Frag(SB, "", NoSrc, <<>>)>>),
              Answer(TRUE, <<Frag(SB, "", NoSrc, <<>>), Tok(<<"frag_src">>)>>),
              Answer(TRUE, <<Div(<<Frag(SB, "", NoSrc, <<>>)>>)>>),
              Answer(TRUE, <<Frag(SA, "", NoSrc, <<>>)>>) }
AnswersB == { Failed,
              Answer(TRUE, <<>>),
              Answer(TRUE, <<Div(<<Script(SX)>>)>>),
              Answer(TRUE, <<Tok(<<"x">>), Frag(NoSrc, "", NoSrc, <<Txt>>)>>),
              Answer(TRUE, <<Frag(SA, "truthy", NoSrc, <<>>)>>) }
AnswersM == { Failed,
              Answer(TRUE, <<Txt, Frag(SB, "", NoSrc, <<>>)>>),
              Answer(TRUE, <<Script(SX)>>) }
Sites ==
    {[s \in Srcs |-> IF s = SA THEN a ELSE IF s = SB THEN b ELSE m] :
        a \in AnswersA, b \in AnswersB, m \in AnswersM}

InitialDom(doc) ==
    LET a == Alloc(<<Node(T("body", <<>>, NoSrc, "", NoSrc, <<>>), <<>>, 0)>>, doc, Body)
    IN  [a.dom EXCEPT ![Body].kids = a.ids]

----------------------------------------------------------------------------
(* A handler that mutates the store.  On this page the expression of the   *)
(* own "added" handler of "a" (element 4) is Frontend.setData("a", 2):     *)
(* the call is made inside invokeEventAction, while the dispatchDataEvent  *)
(* that invoked the handler is still in its own-event loop.                *)

SetsData == [el |-> 4, path |-> <<"a">>, value |-> Num(2)]
NotSuspended == [on |-> FALSE, rest |-> <<>>]
\* the position in a log of the entry that invokes the handler, 0 if none
Reenters(entries) ==
    IF \E i \in 1..Len(entries) : entries[i].el = SetsData.el
    THEN CHOOSE i \in 1..Len(entries) : entries[i].el = SetsData.el
    ELSE 0
\* the texts after the updateDataBindings calls recorded in entries
RECURSIVE Shown(_, _)
Shown(txt, entries) ==
    IF entries = <<>> THEN txt
    ELSE Shown(IF Head(entries).kind = "bind"
               THEN [txt EXCEPT ![Head(entries).el] = ToText(Head(entries).value)]
               ELSE txt,
               Tail(entries))

\* setData(path, value) up to the call the handler makes, or to its end
\* when the handler is not invoked: the store is written before anything
\* is dispatched
SetDataOuter(path, value) ==
    /\ ~suspended.on
    /\ \E r \in {SetDataResult(path, value)} :
       \E i \in {Reenters(r.log)} :
          /\ Size(r.state) + Size(Builtin("Object", r.ctor)) <= MaxDeepSize
          /\ state' = r.state
          /\ ctor' = r.ctor
          /\ last' = Op("set", path, value, r.end)
          /\ IF i = 0
             THEN /\ text' = r.text
                  /\ log' = r.log
                  /\ suspended' = NotSuspended
             ELSE /\ text' = Shown(text, SubSeq(r.log, 1, i))
                  /\ log' = SubSeq(r.log, 1, i)
                  /\ suspended' = [on |-> TRUE, rest |-> SubSeq(r.log, i + 1, Len(r.log))]
    /\ UNCHANGED <<loadVars, compVars, dirVars, head, markdownProcessor, handled,
                   inflight, spliced>>

\* the handler runs Frontend.setData(..) to its end, global event
\* included, and returns; then the suspended dispatchDataEvent goes on with
\* its loops and broadcasts its own event
HandlerReturns ==
    /\ suspended.on
    /\ \E r \in {SetDataResult(SetsData.path, SetsData.value)} :
          /\ state' = r.state
          /\ ctor' = r.ctor
          /\ log' = log \o r.log \o suspended.rest
          /\ text' = Shown(r.text, suspended.rest)
    /\ suspended' = NotSuspended
    /\ UNCHANGED <<last, loadVars, compVars, dirVars, head, markdownProcessor, handled,
                   inflight, spliced>>

StoreStart ==
    /\ state = Obj(<<>>)
    /\ ctor = <<>>
    /\ text = [e \in TextEls |-> ""]
    /\ log = <<>>
    /\ last = Op("none", <<>>, Undefined, "ok")

LoadStart ==
    /\ pc = "idle"
    /\ queue = <<>>
    /\ total = Num(0)
    /\ stack = <<>>
    /\ calls = <<>>
    /\ events = <<>>

CompStart ==
    /\ registry = <<>>
    /\ first = <<>>
    /\ dest = <<>>
    /\ made = Made("", <<>>, FALSE, <<>>, <<>>, "none")

DirStart ==
    /\ behaviors = <<>>
    /\ offered = <<>>
    /\ links = {}
    /\ elem = [attrs |-> <<>>, kids |-> <<>>, from |-> <<>>]
    /\ host = [attrs |-> <<>>, kids |-> <<>>, from |-> <<>>]

PageStart ==
    /\ head = <<>>
    /\ markdownProcessor = "default"
    /\ handled = <<>>
    /\ inflight = <<>>
    /\ spliced = <<>>
    /\ suspended = NotSuspended

StoreInit ==
    /\ StoreStart
    /\ LoadStart
    /\ CompStart
    /\ DirStart
    /\ PageStart
    /\ dom = InitialDom(<<>>)
    /\ site = [s \in Srcs |-> Failed]

DoSet == \E path \in Paths, value \in InputValues : SetData(path, value)
DoSetInherited ==
    \E path \in InheritedPaths, value \in {Null, Num(1)} : SetData(path, value)
DoRemove == \E path \in AllPaths : RemoveData(path)
DoReset == ResetState

StoreNext == DoSet \/ DoSetInherited \/ DoRemove \/ DoReset

StoreSpec == StoreInit /\ [][StoreNext]_vars

(* The store filled three levels deep, so that a notification for a.b.b   *)
(* meets the child handlers of a.b.* and of a.*.                           *)
DeepPaths == { <<"a">>, <<"a", "b">> }
DeepValues == { Null, Num(1), Num(2), Obj(<<P("b", Num(1))>>) }

DoSetDeep ==
    \E path \in DeepPaths, value \in DeepValues : SetDataWithin(path, value, MaxDeepSize)
DoRemoveDeep == \E path \in DeepPaths : RemoveData(path)

DeepNext == DoSetDeep \/ DoRemoveDeep \/ DoReset

DeepSpec == StoreInit /\ [][DeepNext]_vars

(* The store on the page whose handler calls setData.                      *)
DoSetOuter == \E path \in DeepPaths, value \in DeepValues : SetDataOuter(path, value)
DoRemoveOuter == ~suspended.on /\ DoRemoveDeep
ReentNext == DoSetOuter \/ HandlerReturns \/ DoRemoveOuter
ReentSpec == StoreInit /\ [][ReentNext]_vars

LoadInit ==
    /\ StoreStart
    /\ LoadStart
    /\ CompStart
    /\ DirStart
    /\ head \in {<<>>, <<SX>>}
    /\ markdownProcessor \in MarkdownProcessors
    /\ handled = <<>>
    /\ inflight = <<>>
    /\ spliced = <<>>
    /\ suspended = NotSuspended
    /\ \E doc \in Docs : dom = InitialDom(doc)
    /\ site \in Sites

LoadNext ==
    \/ Initialize
    \/ NextFragment
    \/ NestedFragment
    \/ FetchDone
    \/ FragmentReturn
    \/ Complete

LoadSpec == LoadInit /\ [][LoadNext]_vars

\* every fetch is answered and every continuation runs
LoadFair == LoadSpec /\ WF_vars(LoadNext)

(* Templates and components: declarations come inline (at boot or in the   *)
(* content of a fragment) and in linked packs, in any order; the store     *)
(* changes in between.                                                     *)
TemplateIds == {"card"}
Markups == { <<Tok(<<"a">>)>>, <<Ws>>, <<Txt, Tok(<<Inherited>>)>> }
Templates == {Template(id, html) : id \in TemplateIds \cup {""}, html \in Markups}
Roots == {<<t>> : t \in Templates} \cup {<<t, u>> : t, u \in Templates}
Packs == {<<t>> : t \in {u \in Templates : u.id # ""}}
NoParams == [key \in {} |-> <<>>]
ParamSets == {NoParams, [key \in {<<"a">>} |-> <<"X">>]}

CompInit ==
    /\ StoreStart
    /\ LoadStart
    /\ CompStart
    /\ DirStart
    /\ PageStart
    /\ dom = InitialDom(<<>>)
    /\ site = [s \in Srcs |-> Failed]

DoLoadTemplates == \E root \in Roots : LoadTemplates(root)
DoLoadTemplateLinks == \E pack \in Packs : LoadTemplateLinks(pack)
DoLoadComponent ==
    \E destinationID \in {Destination, "nowhere"}, templateID \in TemplateIds,
       params \in ParamSets, clearParent \in BOOLEAN :
        LoadComponent(destinationID, templateID, params, clearParent)
DoSetA == \E value \in {Null, Num(1)} : SetData(<<"a">>, value)

CompNext == DoLoadTemplates \/ DoLoadTemplateLinks \/ DoLoadComponent \/ DoSetA

CompSpec == CompInit /\ [][CompNext]_vars

(* The same page, whose destination element may have children of its own   *)
(* before any component is loaded into it.                                 *)
Existing == {<<>>, <<Txt>>}
FilledInit ==
    /\ StoreStart
    /\ LoadStart
    /\ registry = <<>>
    /\ first = <<>>
    /\ dest \in Existing
    /\ made = Made("", <<>>, FALSE, <<>>, <<>>, "none")
    /\ DirStart
    /\ PageStart
    /\ dom = InitialDom(<<>>)
    /\ site = [s \in Srcs |-> Failed]
FilledSpec == FilledInit /\ [][CompNext]_vars

(* Behaviors: declarations come inline (at boot or in the content of a    *)
(* fragment) and in linked packs, in any order.                            *)
BehaviorIds == {"tip", " tip ", "menu", ""}
OnClick == TriggerEl(<<"click">>, <<"A">>, Absent, Absent, FALSE, FALSE, FALSE)
OnDrag == TriggerEl(<<"drag">>, <<"B">>, <<"k">>, Absent, TRUE, FALSE, FALSE)
NoAction == TriggerEl(<<"click">>, Absent, Absent, Absent, FALSE, FALSE, FALSE)
TriggerLists == { <<>>, <<OnClick>>, <<OnDrag>>, <<NoAction>> }
BehaviorEls ==
    {Behavior(id, triggers) : id \in BehaviorIds \ {"menu"}, triggers \in TriggerLists}
    \cup {Behavior("menu", <<OnClick>>)}
BehaviorRoots ==
    {<<b>> : b \in BehaviorEls}
    \cup {<<b, c>> : b \in {d \in BehaviorEls : d.id = "tip"},
                    c \in {d \in BehaviorEls : d.id = " tip "}}
PackSrcs == {"p.html", "q.html"}

BehavInit ==
    /\ StoreStart
    /\ LoadStart
    /\ CompStart
    /\ DirStart
    /\ PageStart
    /\ dom = InitialDom(<<>>)
    /\ site = [s \in Srcs |-> Failed]

DoLoadBehaviorsElements == \E root \in BehaviorRoots : LoadBehaviorsElements(root)
DoLoadBehaviorLinks ==
    \E src \in PackSrcs, ok \in BOOLEAN, pack \in BehaviorRoots :
        LoadBehaviorLinks(src, ok, pack)

BehavNext == DoLoadBehaviorsElements \/ DoLoadBehaviorLinks

BehavSpec == BehavInit /\ [][BehavNext]_vars

(* Triggers: the element starts with one or two <trigger> children and    *)
(* no attribute of its own; the compile pass runs on it once.              *)
EventNames == { <<"click">>, <<"drag">>, <<"drag", "stop">> }
Flags == { <<FALSE, FALSE, FALSE>>, <<TRUE, FALSE, FALSE>>, <<FALSE, TRUE, FALSE>>,
           <<FALSE, FALSE, TRUE>>, <<TRUE, TRUE, TRUE>> }
TriggerEls ==
    {TriggerEl(on, action, key, target, f[1], f[2], f[3]) :
        on \in EventNames \cup {Absent}, action \in {Absent, <<"A">>},
        key \in {Absent, Empty, <<"k">>}, target \in {Absent, <<"t">>}, f \in Flags}
DragStop == TriggerEl(<<"drag", "stop">>, <<"B">>, Absent, Absent, FALSE, FALSE, FALSE)
PairedEls == {OnClick, OnDrag, NoAction, DragStop}
TriggerRoots ==
    {<<t>> : t \in TriggerEls} \cup {<<t, u>> : t \in TriggerEls, u \in PairedEls}

TrigInit ==
    /\ StoreStart
    /\ LoadStart
    /\ CompStart
    /\ PageStart
    /\ behaviors = <<>>
    /\ offered = <<>>
    /\ links = {}
    /\ \E triggers \in TriggerRoots : elem = [attrs |-> <<>>, kids |-> triggers, from |-> <<>>]
    /\ host = [attrs |-> <<>>, kids |-> <<>>, from |-> <<>>]
    /\ dom = InitialDom(<<>>)
    /\ site = [s \in Srcs |-> Failed]

TrigNext == BuildElementTriggers

TrigSpec == TrigInit /\ [][TrigNext]_vars

(* Directives: one element with <trigger> children and one with            *)
(* <data-binding> children, well-formed and malformed; the two compile     *)
(* passes run in either order.                                             *)
DataBindings ==
    {DataBinding(key, target) :
        key \in {Absent, <<"a">>, <<"a", "b">>},
        target \in {Absent, <<"text">>, <<"html">>}}
BindingRoots ==
    {<<b>> : b \in DataBindings} \cup {<<b, c>> : b, c \in DataBindings}
PassInit ==
    /\ StoreStart
    /\ LoadStart
    /\ CompStart
    /\ PageStart
    /\ behaviors = <<>>
    /\ offered = <<>>
    /\ links = {}
    /\ \E t, u \in PairedEls : elem = [attrs |-> <<>>, kids |-> <<t, u>>, from |-> <<>>]
    /\ \E bindings \in BindingRoots :
          host = [attrs |-> <<>>, kids |-> bindings, from |-> <<>>]
    /\ dom = InitialDom(<<>>)
    /\ site = [s \in Srcs |-> Failed]
(* Fragment contents with declarations: contents arrive one after the     *)
(* other and the pack fetches they begin are answered at any time.         *)
Contents ==
    {Content(b, bl, t, tl) :
        b \in {<<>>, <<Behavior("tip", <<OnClick>>)>>}, bl \in {"", "p.html"},
        t \in {<<>>, <<Template("card", <<Txt>>)>>}, tl \in {"", "t.html"}}
DoParseFragment == \E content \in Contents : ParseFragment(content)
DoPackAnswered == \E i \in 1..Len(inflight), ok \in BOOLEAN : PackAnswered(i, ok)
PackNext == DoParseFragment \/ DoPackAnswered
PackSpec == BehavInit /\ [][PackNext]_vars

PassNext == BuildElementTriggers \/ BuildElementDataBindings
PassSpec == PassInit /\ [][PassNext]_vars

----------------------------------------------------------------------------
(* Properties of the store.                                                *)

\* every key along the path is an own key of the container it is looked up in
RECURSIVE ExistsIn(_, _)
ExistsIn(v, ks) ==
    \/ ks = <<>>
    \/ /\ IsObjectLike(v)
       /\ Has(v, Head(ks))
       /\ ExistsIn(Prop(v, Head(ks)), Tail(ks))

SomePrefixMissing(st, path) ==
    \E i \in 1..(Len(path) - 1) : ~ExistsIn(st, SubSeq(path, 1, i))

\* C1: set(P, v) with a non-null v, followed immediately by get(P), returns
\* v, in every reachable store state and for every path P.
C1_SetThenGet ==
    (last.name = "set" /\ ~IsNullish(last.value)) => GetData(last.path) = last.value

\* C2: set(P, v) where some proper prefix of P does not exist aborts the
\* write: the store and every bound element are left as they were, and no
\* binding update, handler call or data:* event happens.
C2_MissingPrefixAborts ==
    [][(last'.name = "set" /\ SomePrefixMissing(state, last'.path))
        => /\ state' = state
           /\ text' = text
           /\ log' = <<>>
           /\ last'.end # "ok"]_vars

\* C3: every notification of a set(P, v) with non-null v is classified
\* rightly: "added" only for a path whose key did not exist right before
\* the call, "changed" only for one whose key did, and the oldValue it
\* carries is the value the path held before.
C3_Classified ==
    [][(last'.name = "set" /\ ~IsNullish(last'.value))
        => \A i \in 1..Len(log') :
              log'[i].kind = "event"
              => /\ log'[i].type = "added" => ~ExistsIn(state, log'[i].path)
                 /\ log'[i].type = "changed" => ExistsIn(state, log'[i].path)
                 /\ log'[i].oldValue = GetIn(state, log'[i].path)]_vars

\* C10: after every store operation each element with data-bind-text = P
\* shows the value the store holds at P, or the empty text when P does not
\* resolve.
C10_BindingsInSync ==
    \A e \in BindEls : text[e] = ToText(GetData(StoreDoc[e].key))

----------------------------------------------------------------------------
(* Properties of the fragment loader.                                      *)

\* the step is the continuation of loadFragment after its fetch is answered
FetchAnswered == stack # <<>> /\ Top.phase = "fetch" /\ calls' # calls

\* the step is a call of loadFragment that finds no source to load
NoSourceCall ==
    /\ Len(calls') = Len(calls) + 1
    /\ LET frag == dom[Last(calls').el]
       IN  \/ frag.src = NoSrc
           \/ frag.cond \in {"falsy", "throws"} /\ frag.fb = NoSrc

\* in d2 the nodes that stand where el stood in d1 are fresh nodes for markup
PutInPlace(d1, d2, el, markup) ==
    LET p == d1[el].parent
        old == d1[p].kids
        new == d2[p].kids
        j == CHOOSE i \in 1..Len(old) : old[i] = el
    IN  p # 0 =>
          /\ Len(new) = Len(old) - 1 + Len(markup)
          /\ SubSeq(new, 1, j - 1) = SubSeq(old, 1, j - 1)
          /\ SubSeq(new, j + Len(markup), Len(new)) = SubSeq(old, j + 1, Len(old))
          /\ Serialize(d2, SubSeq(new, j, j + Len(markup) - 1)) = markup
          /\ \A i \in j..(j + Len(markup) - 1) : new[i] > Len(d1)

LoadedEvents == SelectSeq(events, LAMBDA e : e.name = "fragment:loaded")
LoadedEventsOf(el) == SelectSeq(LoadedEvents, LAMBDA e : e.el = el)
UsesFallback(frag) == frag.cond \in {"falsy", "throws"} /\ frag.fb # NoSrc
UsesSrc(frag) == frag.cond \in {"", "truthy"} /\ frag.src # NoSrc

\* C4: for a fragment whose condition is falsy or throws and whose fallback
\* is set, what is fetched and put in place of the placeholder is the
\* fallback source, and its fragment:loaded event carries the fallback source.
C4_FallbackLoaded ==
    \A i \in 1..Len(calls) :
        UsesFallback(dom[calls[i].el])
        => /\ calls[i].url = dom[calls[i].el].fb
           /\ \A j \in 1..Len(events) :
                 events[j].el = calls[i].el => events[j].src = dom[calls[i].el].fb

\* C5: for a fragment with no condition or a truthy one whose fetch succeeds,
\* the placeholder is replaced by the fetched content with its parameters
\* substituted and exactly one fragment:loaded event is emitted for it, whose
\* src is the src attribute as it is written, for markup and for markdown.
C5_SrcLoaded ==
    [][(FetchAnswered /\ UsesSrc(dom[Top.el]) /\ site[dom[Top.el].src].ok)
        => LET frag == dom[Top.el]
               raw == site[frag.src].body
               html == IF IsMarkdown(ToLowerCase(frag.src)) THEN RenderMarkdown(raw)
                       ELSE raw
           IN  /\ PutInPlace(dom, dom', Top.el, SubstituteParams(html, CollectParams(frag)))
               /\ LoadedEventsOf(Top.el) = <<>>
               /\ Len(events') = Len(events) + 1
               /\ Last(events').name = "fragment:loaded"
               /\ Last(events').el = Top.el
               /\ Last(events').src = frag.src]_vars

C7_CountIsLoaded ==
    pc = "done" => Last(events).count = Num(Len(LoadedEvents))

\* C8: when page:load_complete is emitted no <fragment src> element outside
\* a code block remains in the document.
C8_NoneUnresolved ==
    pc = "done" => AllFragments(dom) = <<>>

\* The loader stops only when it is done or the bound on nested calls is
\* reached, and that bound is reached only inside a source that includes
\* itself: a call loading what an enclosing call has loaded.
StopsOnlyDoneOrFull == pc = "done" \/ ENABLED LoadNext \/ Len(stack) = MaxStack
FullOnlyOnCycle ==
    Len(stack) = MaxStack =>
        \E i, j \in 1..Len(stack) :
            /\ i < j
            /\ stack[i].phase = "children"
            /\ calls[stack[i].call].url = calls[stack[j].call].url

----------------------------------------------------------------------------
(* The dispatcher and the store, continued.                                *)

IsProperPrefix(a, path) == Len(a) < Len(path) /\ a = SubSeq(path, 1, Len(a))

\* the child-event elements of the document for mutations of this type
ChildEls(type) == {e \in Els : StoreDoc[e].attr = "child" /\ StoreDoc[e].type = type}

\* the positions of the log where element e's child action runs for path
ChildCalls(lg, e, type, path) ==
    {i \in 1..Len(lg) : /\ lg[i].kind = "child"
                         /\ lg[i].el = e
                         /\ lg[i].type = type
                         /\ lg[i].path = path}

\* C12: for every path P of two or more segments that a store operation
\* announces as added, changed or deleted, each element whose child-event key
\* of that type is A.* for a proper prefix A of P has its child action run
\* exactly once, with key = P, matchedOn = A.*, oldValue = the value at P
\* before the operation and value = the value at P after it.
C12_ChildHandlers ==
    [][\A i \in 1..Len(log') : \A path \in {log'[i].path} :
          (log'[i].kind = "event" /\ Len(path) >= 2)
          => \A e \in ChildEls(log'[i].type) :
                IsProperPrefix(StoreDoc[e].key, path)
                => /\ Cardinality(ChildCalls(log', e, log'[i].type, path)) = 1
                   /\ \A j \in ChildCalls(log', e, log'[i].type, path) :
                         /\ log'[j].matched = StoreDoc[e].key
                         /\ log'[j].oldValue = GetData(path)
                         /\ log'[j].value = GetData(path)']_vars

\* C13: every data:added and data:changed event carries as value what
\* get(path) returns when it is emitted and as oldValue what get(path)
\* returned before the operation; every data:deleted event carries the value
\* undefined, for a path that no longer resolves.
C13_EventPayload ==
    [][\A i \in 1..Len(log') : \A path \in {log'[i].path} :
          log'[i].kind = "event"
          => IF log'[i].type \in {"added", "changed"}
             THEN /\ log'[i].value = GetData(path)'
                  /\ log'[i].oldValue = GetData(path)
             ELSE /\ log'[i].value = Undefined
                  /\ GetData(path)' = Undefined]_vars

EventsOf(lg) == SelectSeq(lg, LAMBDA en : en.kind = "event")
\* neither path leads to the other
Unrelated(p, q) == ~IsProperPrefix(p, q) /\ ~IsProperPrefix(q, p) /\ p # q

\* C15: remove(P) on a path that exists in the store deletes that key,
\* leaves the value at every path that is neither P, below P nor above P as
\* it was, emits exactly one "deleted" event, carrying P and the old value,
\* and get(P) is undefined afterwards; remove(P) on a path that does not
\* exist changes nothing and emits nothing.
C15_RemoveExact ==
    [][last'.name = "remove"
        => \A path \in {last'.path} :
              IF ExistsIn(state, path)
              THEN /\ ~ExistsIn(state', path)
                   /\ GetData(path)' = Undefined
                   /\ \A q \in AllPaths : Unrelated(path, q) => GetData(q)' = GetData(q)
                   /\ EventsOf(log') = << Entry("event", "deleted", path, path,
                                                Undefined, GetData(path), 0) >>
              ELSE /\ state' = state
                   /\ ctor' = ctor
                   /\ text' = text
                   /\ log' = <<>>]_vars

\* C16: reset() emits exactly one "deleted" event for each top-level key
\* the store holds, carrying the value the key held, and no other event;
\* afterwards get(P) is undefined for every path P.
C16_ResetClears ==
    [][last'.name = "reset"
        => /\ Len(EventsOf(log')) = Len(state.m)
           /\ \A i \in 1..Len(state.m) :
                 Len(SelectSeq(EventsOf(log'),
                               LAMBDA en : en = Entry("event", "deleted",
                                                      <<state.m[i].key>>, <<state.m[i].key>>,
                                                      Undefined, state.m[i].val, 0))) = 1
           /\ \A path \in AllPaths : GetData(path)' = Undefined]_vars

\* C17: in every reachable state get(P) returns undefined for every path P
\* with a segment that is absent from the store.
C17_GetAbsentUndefined ==
    \A path \in AllPaths : ~ExistsIn(state, path) => GetData(path) = Undefined

\* C11: an element onto which <data-binding key=K target="text"> was
\* compiled shows v after every set(K, v) of a non-null v.
C11_CompiledBindingUpdates ==
    [][\A e \in CompiledEls :
          (/\ last'.name = "set"
           /\ last'.end = "ok"
           /\ ~IsNullish(last'.value)
           /\ last'.path = StoreDoc[e].key)
          => text'[e] = ToText(last'.value)]_vars

----------------------------------------------------------------------------
(* Substitution, templates and components.                                 *)

\* the step is a loadComponent call that did something
IsLoadStep == <<dest, made>>' # <<dest, made>>

\* what the token {{key}} is to become: the parameter of that name, else
\* the non-null value the store holds at the path, else the token itself
Resolved(token, params, store) ==
    IF token.val \in DOMAIN params THEN Text(params[token.val])
    ELSE IF ExistsIn(store, token.val) /\ ~IsNullish(GetIn(store, token.val))
         THEN Text(<<ToText(GetIn(store, token.val))>>)
    ELSE token

\* C18: every token {{K}} of the markup handed to the substitution is
\* replaced by the value of the parameter K when the parameters have a key K,
\* whatever the store holds; otherwise by the non-null value the store holds
\* at path K; otherwise it stays as it is.
C18_SubstitutionPriority ==
    made.end = "ok"
    => /\ Len(made.inserted) = Len(made.html)
       /\ \A i \in 1..Len(made.html) :
             made.html[i].tag = "token"
             => made.inserted[i] = Resolved(made.html[i], made.params, made.store)

C20_FirstDeclarationWins ==
    \A i \in 1..Len(registry) :
        /\ \A j \in 1..Len(registry) : registry[j].id = registry[i].id => j = i
        /\ \E k \in 1..Len(first) : first[k] = registry[i]

\* C21: once a linked template pack has been fetched and processed, every
\* template with an id that the pack declares is in the registry (its own
\* declaration, or the one registered earlier under that id).
C21_PackTemplatesRegistered ==
    [][\A pack \in Packs :
          LoadTemplateLinks(pack)
          => \A i \in 1..Len(pack) : QueryTemplate(registry', pack[i].id) # 0]_vars

----------------------------------------------------------------------------
(* Properties of the behavior registry.                                    *)

\* the declarations offered so far under an id, oldest first
OfferedAs(id) == SelectSeq(offered, LAMBDA b : TrimId(b.id) = id)
\* those of them that have at least one <trigger> child
OfferedWithTriggers(id) == SelectSeq(OfferedAs(id), LAMBDA b : b.triggers # <<>>)
RegisteredIds == {TrimId(id) : id \in BehaviorIds} \ {""}

----------------------------------------------------------------------------
(* Properties of the trigger compile pass.                                 *)

IsValidTrigger(t) == ~Falsy(t.on) /\ ~Falsy(t.action)
\* the compile pass has run on the element
Compiled == elem.from # <<>>
OnlyOneFor(i) ==
    \A j \in 1..Len(elem.from) : elem.from[j].on = elem.from[i].on => j = i
\* the names a trigger may put on the element
NamesOf(t) ==
    {<<"on">> \o t.on \o suffix :
        suffix \in {<<>>, <<"key">>, <<"target">>, <<"once">>, <<"prevent">>, <<"stop">>}}

\* C27: after the compile pass a valid trigger that is the only one for its
\* event name has left on-<event> = action on the element, on-<event>-key
\* and on-<event>-target exactly when it gave key and target, the once /
\* prevent / stop attributes exactly when it had them, and no <trigger> is
\* left; every attribute of the element comes from a valid trigger.
C27_CompiledAttributes ==
    Compiled =>
        /\ elem.kids = <<>>
        /\ \A i \in 1..Len(elem.from) :
              LET t == elem.from[i]
                  base == <<"on">> \o t.on
              IN  IsValidTrigger(t) /\ OnlyOneFor(i) =>
                    /\ GetAttribute(elem.attrs, base) = t.action
                    /\ GetAttribute(elem.attrs, base \o <<"key">>) = OrNull(t.key)
                    /\ GetAttribute(elem.attrs, base \o <<"target">>) = OrNull(t.target)
                    /\ HasAttribute(elem.attrs, base \o <<"once">>) <=> t.once
                    /\ HasAttribute(elem.attrs, base \o <<"prevent">>) <=> t.prevent
                    /\ HasAttribute(elem.attrs, base \o <<"stop">>) <=> t.stop
        /\ \A a \in 1..Len(elem.attrs) :
              \E i \in 1..Len(elem.from) :
                  IsValidTrigger(elem.from[i]) /\ elem.attrs[a].name \in NamesOf(elem.from[i])

----------------------------------------------------------------------------
(* Properties of the loader: scripts, errors, order.                       *)

\* the nodes that are in the document, in document order
InDocument(d) == Preorder(d, d[Body].kids)

\* C23: the head never holds two scripts of one src, and no <script src>
\* that came with fetched content is left in the document outside the head
\* (the pages of the model hold no script of their own).
C23_ScriptsInHead ==
    /\ \A i, j \in 1..Len(head) : head[i] = head[j] => i = j
    /\ \A i \in 1..Len(InDocument(dom)) :
          LET n == dom[InDocument(dom)[i]]
          IN  ~(n.tag = "script" /\ n.src # NoSrc)

\* C24: when a loadFragment call ends with an exception, the placeholder of
\* that fragment is out of the document and the pass stands where a call
\* that returned 0 would leave it: initialize is still loading, the
\* fragments still to load are the same, and every enclosing call is still
\* in progress with the nodes it has not yet looked at.
C24_ErrorIsContained ==
    [][\A c \in 1..Len(calls) :
          calls[c].why = "fetching" /\ calls'[c].why = "threw"
          => /\ dom'[calls[c].el].parent = 0
             /\ ~InSeq(InDocument(dom'), calls[c].el)
             /\ pc = "loading" /\ pc' = "loading"
             /\ queue' = queue
             /\ total' = total
             /\ events' = events
             /\ stack' = Front(stack)]_vars

\* a nested call threw, a later fragment was loaded all the same, and the
\* pass came to its end
C24_Witness ==
    /\ pc = "done"
    /\ events # <<>> /\ events[Len(events)].name = "page:load_complete"
    /\ \E h, i, j \in 1..Len(calls) :
          /\ h < i /\ i < j
          /\ calls[h].why = "loaded"
          /\ calls[i].why = "threw"
          /\ calls[j].why = "loaded"

\* an entry of `handled`: the expression run and the element it ran for
Ran(expr, el) == [expr |-> expr, el |-> el]

\* C26: the onload expression of a fragment has been run once its content
\* is in (its fragment:loaded event is out), and its onerror expression once
\* its loading has failed.
C26_HandlersInvoked ==
    /\ \A i \in 1..Len(events) :
          events[i].name = "fragment:loaded"
          => InSeq(handled, Ran(GetFragmentData(dom, events[i].el).onload, events[i].el))
    /\ \A c \in 1..Len(calls) :
          calls[c].why \in {"fetchfail", "threw"}
          => InSeq(handled, Ran(GetFragmentData(dom, calls[c].el).onerror, calls[c].el))

\* the calls in progress
OnStack(c) == \E i \in 1..Len(stack) : stack[i].call = c

\* C28: at most one fragment fetch is in flight, that of the innermost call
\* in progress; every enclosing call has its own content in and waits for
\* that call, and every other call made so far (the fragments that come
\* before in document order, with what they nest) has returned.
C28_OneFetchInFlight ==
    /\ \A c \in 1..Len(calls) :
          calls[c].why = "fetching"
          => stack # <<>> /\ Top.call = c /\ Top.phase = "fetch"
    /\ \A i \in 1..Len(stack) :
          /\ i < Len(stack) => stack[i].phase = "children" /\ stack[i].call < stack[i + 1].call
          /\ stack[i].phase = "fetch" <=> calls[stack[i].call].why = "fetching"
    /\ \A c \in 1..Len(calls) :
          ~OnStack(c) => calls[c].why \in {"nosource", "fetchfail", "empty", "threw", "loaded"}

\* a nested fetch is in flight after an earlier fragment of the same content
\* was loaded and returned
C28_Witness ==
    /\ Len(stack) > 1
    /\ Top.phase = "fetch"
    /\ \E c \in 1..Len(calls) :
          /\ stack[Len(stack) - 1].call < c /\ c < Top.call
          /\ ~OnStack(c)
          /\ calls[c].why = "loaded"

\* the elements of the fragment:loaded events, in the order of the events
LoadedEls == [i \in 1..Len(LoadedEvents) |-> LoadedEvents[i].el]
\* the elements of the calls that loaded their fragment, in the order in
\* which the calls were made: parent first, then what its content nests,
\* then what follows it
LoadedCalls == SelectSeq(calls, LAMBDA c : c.why = "loaded")

\* C29: a call that is looking at the nodes of its content (the only time
\* a nested fetch can start) has put its content in place of the fragment
\* and has dispatched its fragment:loaded; a call still fetching has not;
\* and the fragment:loaded events come in the order in which the calls
\* were made, which is depth-first pre-order.
C29_LoadedInPreorder ==
    /\ \A i \in 1..Len(stack) :
          /\ stack[i].phase = "children"
             => /\ Len(LoadedEventsOf(stack[i].el)) = 1
                /\ ~InSeq(InDocument(dom), stack[i].el)
          /\ stack[i].phase = "fetch" => LoadedEventsOf(stack[i].el) = <<>>
    /\ LoadedEls = [i \in 1..Len(LoadedCalls) |-> LoadedCalls[i].el]

\* a nested fragment has been loaded while its parent is still in progress
C29_Witness ==
    /\ Len(stack) > 1
    /\ stack[1].phase = "children"
    /\ stack[2].phase = "children"
    /\ Len(LoadedEls) > 1
    /\ LoadedEls[Len(LoadedEls) - 1] = stack[1].el
    /\ LoadedEls[Len(LoadedEls)] = stack[2].el

----------------------------------------------------------------------------
(* Properties of the dispatcher: errors and order.                         *)

\* the handlers of the document that match a notification of `type` for
\* `path`: own handlers keyed to the path, child handlers keyed to a
\* proper prefix of it
MatchesNotification(e, type, path) ==
    /\ StoreDoc[e].type = type
    /\ \/ StoreDoc[e].attr = "own" /\ StoreDoc[e].key = path
       \/ StoreDoc[e].attr = "child" /\ IsProperPrefix(StoreDoc[e].key, path)

\* C25: when a handler whose action throws has been invoked for a
\* notification, every handler that matches the notification has been
\* invoked all the same, the global data:<type> event of the notification
\* has been broadcast after it, and the store operation has returned
\* normally with the store changed as asked.
C25_ThrowingHandlerContained ==
    \A i \in 1..Len(log) :
        log[i].kind \in {"own", "child"} /\ log[i].el \in Throwing
        => /\ \A e \in Els :
                 MatchesNotification(e, log[i].type, log[i].path)
                 => \E j \in 1..Len(log) :
                        /\ log[j].el = e
                        /\ log[j].path = log[i].path
                        /\ log[j].type = log[i].type
           /\ \E j \in (i + 1)..Len(log) :
                 /\ log[j].kind = "event"
                 /\ log[j].path = log[i].path
                 /\ log[j].type = log[i].type
           /\ last.end = "ok"
           /\ last.name = "set" /\ ~IsNullish(last.value)
              => GetData(last.path) = last.value
           /\ last.name = "remove" \/ (last.name = "set" /\ IsNullish(last.value))
              => GetData(last.path) = Undefined

\* a child handler that throws was invoked, and after it the child handler
\* of the next ancestor and the global event of the same notification; in
\* the same operation an own handler that throws was followed by a child
\* handler
C25_Witness ==
    /\ last.end = "ok"
    /\ \E i, j, k \in 1..Len(log) :
          /\ i < j /\ j < k
          /\ log[i].kind = "child" /\ log[i].el \in Throwing
          /\ log[j].kind = "child" /\ log[j].path = log[i].path
          /\ log[k].kind = "event" /\ log[k].path = log[i].path
    /\ \E i, j \in 1..Len(log) :
          /\ i < j
          /\ log[i].kind = "own" /\ log[i].el \in Throwing
          /\ log[j].kind = "child" /\ log[j].path = log[i].path

\* the global event that closes the notification an entry of the log
\* belongs to
ClosedBy(i) ==
    CHOOSE k \in i..Len(log) :
        /\ log[k].kind = "event"
        /\ \A m \in i..(k - 1) : log[m].kind # "event"
Rank(kind) ==
    CASE kind = "bind" -> 1 [] kind = "own" -> 2 [] kind = "child" -> 3 [] OTHER -> 4

----------------------------------------------------------------------------
(* Properties of the behavior registry and of the compile pass, continued. *)

\* C38: every entry of the behavior registry holds a list that is not empty
\* and is made of valid trigger specs only, each with an event name and an
\* action: no null, no partial element.
C38_OnlyValidTriggersStored ==
    \A i \in 1..Len(behaviors) :
        /\ behaviors[i].triggers # <<>>
        /\ \A j \in 1..Len(behaviors[i].triggers) :
              LET t == behaviors[i].triggers[j]
              IN  t # NoTriggerData /\ ~Falsy(t.on) /\ ~Falsy(t.action)

\* the last valid trigger of the compiled element for the event name of
\* the trigger at i
LastFor(i) ==
    CHOOSE k \in 1..Len(elem.from) :
        /\ IsValidTrigger(elem.from[k])
        /\ elem.from[k].on = elem.from[i].on
        /\ \A m \in (k + 1)..Len(elem.from) :
              ~(IsValidTrigger(elem.from[m]) /\ elem.from[m].on = elem.from[i].on)

\* C39: when the element had several valid triggers for one event name, the
\* attributes compiled for that event all describe the last of them: its
\* action, its key and target (or none), and its flags (or none).
C39_LastTriggerWins ==
    Compiled =>
        \A i \in 1..Len(elem.from) :
            IsValidTrigger(elem.from[i]) /\ ~OnlyOneFor(i)
            => LET t == elem.from[LastFor(i)]
                   base == <<"on">> \o t.on
               IN  /\ GetAttribute(elem.attrs, base) = t.action
                   /\ GetAttribute(elem.attrs, base \o <<"key">>) = OrNull(t.key)
                   /\ GetAttribute(elem.attrs, base \o <<"target">>) = OrNull(t.target)
                   /\ HasAttribute(elem.attrs, base \o <<"once">>) <=> t.once
                   /\ HasAttribute(elem.attrs, base \o <<"prevent">>) <=> t.prevent
                   /\ HasAttribute(elem.attrs, base \o <<"stop">>) <=> t.stop

\* C33: a loadComponent called with the clear-first flag false leaves the
\* existing children of the destination in place and only appends after
\* them, whatever the template, an empty one included.
C33_AppendKeepsChildren ==
    [][(made' # made /\ ~made'.clear /\ made'.end # "missing")
       => /\ Len(dest') >= Len(dest)
          /\ SubSeq(dest', 1, Len(dest)) = dest]_vars

\* C37: set(P, v) and remove(P) return normally, without raising, for
\* every path and every store, also when a proper prefix of P holds a
\* value that is not a container.
C37_NeverRaises == last.name \in {"set", "remove"} => last.end # "throw"

----------------------------------------------------------------------------
(* Properties of the store and of the dispatcher, continued.               *)

\* the paths that remove(P) or reset() deletes in this step: P itself, or
\* every top-level key
DeletedRoots ==
    IF last'.name = "remove" THEN {last'.path}
    ELSE {<<state.m[i].key>> : i \in 1..Len(state.m)}
\* the handler of element e ran in the next log for the deletion of path,
\* matched on the key `matched`
DeletionTold(e, path, matched) ==
    \E i \in 1..Len(log') :
        /\ log'[i].el = e
        /\ log'[i].type = "deleted"
        /\ log'[i].path = path
        /\ log'[i].matched = matched

\* C34: when remove(P) or reset() deletes a key whose value is a mapping,
\* each child key k that disappears with it is notified too: the own
\* deleted handlers keyed to P.k and the child deleted handlers keyed to
\* P.* are executed for P.k.
C34_DescendantsNotified ==
    [][(last'.name \in {"remove", "reset"} /\ last'.end = "ok")
       => \A root \in DeletedRoots :
             LET old == GetData(root)
             IN  old.k = "object"
                 => \A i \in 1..Len(old.m) :
                       LET Pk == root \o <<old.m[i].key>>
                       IN  \A e \in Els :
                              /\ StoreDoc[e] = El("own", "deleted", Pk)
                                 => DeletionTold(e, Pk, Pk)
                              /\ StoreDoc[e] = El("child", "deleted", root)
                                 => DeletionTold(e, Pk, root)]_vars

\* C31: a child-event handler receives as targetElement the element whose
\* id its companion attribute on-data-child-<type>-target names, resolved
\* as for an own-event handler; it is undefined only when the attribute is
\* missing or no element has that id.
C31_ChildTargetResolved ==
    \A i \in 1..Len(log) :
        log[i].kind = "child"
        => LET targetId == TargetAttributes(log[i].el).child
               got == TargetElement(log[i])
           IN  IF targetId # <<>> /\ GetElementById(targetId) # "null"
               THEN got = GetElementById(targetId)
               ELSE got \in {"undefined", "null"}

----------------------------------------------------------------------------
(* Properties of the compile passes.                                       *)

\* C32: once the compile pass has run on an element, none of its <trigger>
\* or <data-binding> children remains, well-formed or not, and every
\* well-formed <data-binding> has been compiled into its attribute even
\* when a sibling was malformed.
C32_DirectivesCompiledAndRemoved ==
    /\ elem.from # <<>> => elem.kids = <<>>
    /\ host.from # <<>>
       => /\ host.kids = <<>>
          /\ \A i \in 1..Len(host.from) :
                ~Malformed(host.from[i])
                => HasAttribute(host.attrs, <<"data", "binding">> \o host.from[i].target)

----------------------------------------------------------------------------
(* Properties of the loader, continued.                                    *)

\* C40: a placeholder is fetched, and announced with fragment:loaded, only
\* if it is attached to the document when its turn comes; a placeholder
\* left in the inline content of a fragment already replaced or removed is
\* passed over.
C40_OnlyAttachedLoaded ==
    [][/\ (Len(calls') > Len(calls) /\ calls'[Len(calls')].why = "fetching")
          => InSeq(InDocument(dom), calls'[Len(calls')].el)
       /\ (Len(events') > Len(events) /\ events'[Len(events')].name = "fragment:loaded")
          => InSeq(InDocument(dom), events'[Len(events')].el)]_vars

\* the behaviors and templates a content declares, inline and in the packs
\* it links
DeclaredBehaviors(content) ==
    content.behaviors \o (IF content.blink = "" THEN <<>> ELSE PackBehaviors(content.blink))
DeclaredTemplates(content) ==
    content.templates \o (IF content.tlink = "" THEN <<>> ELSE PackTemplates(content.tlink))

\* C35: when the fetched content of a fragment is spliced into the
\* document, the behaviors and templates it declares, those of the packs it
\* links included, are registered already.
C35_RegisteredBeforeSplice ==
    [][Len(spliced') > Len(spliced)
       => LET content == spliced'[Len(spliced')]
          IN  /\ \A i \in 1..Len(DeclaredBehaviors(content)) :
                    BehaviorsHas(behaviors', TrimId(DeclaredBehaviors(content)[i].id))
              /\ \A i \in 1..Len(DeclaredTemplates(content)) :
                    QueryTemplate(registry', DeclaredTemplates(content)[i].id) # 0]_vars

----------------------------------------------------------------------------
(* Properties of re-entrant mutation.                                      *)

\* the last global event broadcast for the path of the entry at i
IsLastEventFor(i) ==
    /\ log[i].kind = "event"
    /\ \A j \in (i + 1)..Len(log) :
          ~(log[j].kind = "event" /\ log[j].path = log[i].path)

\* C36: when a handler called set while it was being notified, the global
\* events are broadcast in the order the mutations were applied, so the
\* last event broadcast for the path carries the value the store holds
\* there in the end.
C36_LastEventCarriesFinalValue ==
    (~suspended.on /\ Reenters(log) # 0)
    => \A i \in 1..Len(log) :
          IsLastEventFor(i) /\ log[i].path = SetsData.path
          => log[i].value = GetData(log[i].path)

====
